---- MODULE Spec2Model ----
(***************************************************************************)
(* lanup: LAN address detection (internal/net), the IP watcher and the     *)
(* start command's watch mode (cmd/start), as state machines.              *)
(*                                                                         *)
(* Strings are sequences of one-character strings, so that parsing,        *)
(* formatting, prefix tests and substitution are computed character by     *)
(* character as the Go code (and the Go library it calls) computes them.   *)
(***************************************************************************)
EXTENDS Integers, Sequences, FiniteSets, TLC

(***************************************************************************)
(* Characters                                                              *)
(***************************************************************************)
DecDigits == <<"0", "1", "2", "3", "4", "5", "6", "7", "8", "9">>

DigitVal == [c \in {DecDigits[i] : i \in 1..10} |->
               CHOOSE v \in 0..9 : DecDigits[v + 1] = c]

IsDigit(c) == c \in DOMAIN DigitVal

HexLower == <<"a", "b", "c", "d", "e", "f">>

HexUpper == <<"A", "B", "C", "D", "E", "F">>

IsHexLower(c) == \E i \in 1..6 : HexLower[i] = c

IsHexUpper(c) == \E i \in 1..6 : HexUpper[i] = c

HexLetterVal(c) ==
  IF IsHexLower(c) THEN 9 + (CHOOSE i \in 1..6 : HexLower[i] = c)
                   ELSE 9 + (CHOOSE i \in 1..6 : HexUpper[i] = c)

\* position of the first occurrence of character c in s, 0 when absent
IndexByte(s, c) ==
  IF \E i \in 1..Len(s) : s[i] = c
  THEN CHOOSE i \in 1..Len(s) : s[i] = c /\ \A j \in 1..(i - 1) : s[j] # c
  ELSE 0

Drop(s, n) == SubSeq(s, n + 1, Len(s))

(***************************************************************************)
(* net.ParseIP of the Go library (net/netip ParseAddr), which IsPrivateIP  *)
(* calls: a parse result is <<>> (nil) or the 16 bytes of the address.     *)
(***************************************************************************)
NoIP == <<>>

\* netip.parseIPv4: the loop over the characters, as loop state
\* (i, val, digLen, fields). Returns NoIP or the 4 fields.
RECURSIVE ParseIPv4Loop(_, _, _, _, _)
ParseIPv4Loop(s, i, val, digLen, fields) ==
  IF i > Len(s)
  THEN IF Len(fields) < 3 THEN NoIP ELSE Append(fields, val)
  ELSE IF IsDigit(s[i])
       THEN IF digLen = 1 /\ val = 0
            THEN NoIP                                \* leading zero
            ELSE LET v == val * 10 + DigitVal[s[i]]
                 IN  IF v > 255 THEN NoIP
                     ELSE ParseIPv4Loop(s, i + 1, v, digLen + 1, fields)
       ELSE IF s[i] = "."
            THEN IF i = 1 \/ i = Len(s) \/ s[i - 1] = "."
                 THEN NoIP                           \* empty field
                 ELSE IF Len(fields) = 3
                      THEN NoIP                      \* too long
                      ELSE ParseIPv4Loop(s, i + 1, 0, 0, Append(fields, val))
            ELSE NoIP                                \* unexpected character

ParseIPv4(s) == ParseIPv4Loop(s, 1, 0, 0, <<>>)

\* one hex group of parseIPv6: [off, acc, bad] after reading the hex digits
\* at the front of s
RECURSIVE HexGroup(_, _, _)
HexGroup(s, off, acc) ==
  IF off >= Len(s) THEN [off |-> off, acc |-> acc, bad |-> FALSE]
  ELSE LET c == s[off + 1]
       IN  IF ~(IsDigit(c) \/ IsHexLower(c) \/ IsHexUpper(c))
           THEN [off |-> off, acc |-> acc, bad |-> FALSE]
           ELSE LET a == acc * 16 + (IF IsDigit(c) THEN DigitVal[c]
                                                   ELSE HexLetterVal(c))
                IN  IF off > 3 \/ a > 65535
                    THEN [off |-> off, acc |-> a, bad |-> TRUE]
                    ELSE HexGroup(s, off + 1, a)

Zeros(n) == [k \in 1..n |-> 0]

\* the end of parseIPv6: the whole string used, the ellipsis expanded
ParseIPv6Finish(s, ip, ellipsis) ==
  IF Len(s) # 0 THEN NoIP
  ELSE IF Len(ip) < 16
       THEN IF ellipsis < 0 THEN NoIP
            ELSE SubSeq(ip, 1, ellipsis) \o Zeros(16 - Len(ip))
                   \o SubSeq(ip, ellipsis + 1, Len(ip))
       ELSE IF ellipsis >= 0 THEN NoIP ELSE ip

\* netip.parseIPv6: the loop over the groups; ip holds the bytes written so
\* far (the code's index i is Len(ip)), ellipsis the byte index of "::"
RECURSIVE ParseIPv6Loop(_, _, _)
ParseIPv6Loop(s, ip, ellipsis) ==
  IF Len(ip) >= 16 THEN ParseIPv6Finish(s, ip, ellipsis)
  ELSE
  LET g == HexGroup(s, 0, 0)
      off == g.off
  IN  IF g.bad \/ off = 0 THEN NoIP
      ELSE IF off < Len(s) /\ s[off + 1] = "."
      THEN \* trailing IPv4
           IF (ellipsis < 0 /\ Len(ip) # 12) \/ Len(ip) + 4 > 16 THEN NoIP
           ELSE LET ip4 == ParseIPv4(s)
                IN  IF ip4 = NoIP THEN NoIP
                    ELSE ParseIPv6Finish(<<>>, ip \o ip4, ellipsis)
      ELSE LET ip2 == ip \o <<g.acc \div 256, g.acc % 256>>
               s2 == Drop(s, off)
           IN  IF Len(s2) = 0 THEN ParseIPv6Finish(s2, ip2, ellipsis)
               ELSE IF s2[1] # ":" \/ Len(s2) = 1 THEN NoIP
               ELSE LET s3 == Drop(s2, 1)
                    IN  IF s3[1] = ":"
                        THEN IF ellipsis >= 0 THEN NoIP
                             ELSE IF Len(s3) = 1
                                  THEN ParseIPv6Finish(<<>>, ip2, Len(ip2))
                                  ELSE ParseIPv6Loop(Drop(s3, 1), ip2, Len(ip2))
                        ELSE ParseIPv6Loop(s3, ip2, ellipsis)

\* a zone ("%eth0") makes net.ParseIP return nil whatever the rest is
ParseIPv6(s) ==
  IF IndexByte(s, "%") # 0 THEN NoIP
  ELSE IF Len(s) >= 2 /\ s[1] = ":" /\ s[2] = ":"
       THEN IF Len(s) = 2 THEN Zeros(16)
            ELSE ParseIPv6Loop(Drop(s, 2), <<>>, 0)
       ELSE ParseIPv6Loop(s, <<>>, -1)

V4InV6Prefix == <<0, 0, 0, 0, 0, 0, 0, 0, 0, 0, 255, 255>>

\* net.ParseIP: the first of '.', ':' and '%' decides the parser; the result
\* is always in 16-byte form
ParseIP(s) ==
  LET firsts == {i \in 1..Len(s) : s[i] \in {".", ":", "%"}}
  IN  IF firsts = {} THEN NoIP
      ELSE LET i == CHOOSE k \in firsts : \A j \in firsts : k <= j
           IN  IF s[i] = "."
               THEN LET ip4 == ParseIPv4(s)
                    IN  IF ip4 = NoIP THEN NoIP ELSE V4InV6Prefix \o ip4
               ELSE IF s[i] = ":" THEN ParseIPv6(s)
               ELSE NoIP

\* net.IP.To4: the 4-byte form of an IPv4 address held in 4 or 16 bytes
To4(ip) ==
  IF Len(ip) = 4 THEN ip
  ELSE IF Len(ip) = 16 /\ SubSeq(ip, 1, 12) = V4InV6Prefix
       THEN SubSeq(ip, 13, 16)
       ELSE NoIP

\* strconv-style decimal text of a byte
Itoa(n) ==
  IF n < 10 THEN <<DecDigits[n + 1]>>
  ELSE IF n < 100 THEN <<DecDigits[(n \div 10) + 1], DecDigits[(n % 10) + 1]>>
  ELSE <<DecDigits[(n \div 100) + 1], DecDigits[((n \div 10) % 10) + 1],
         DecDigits[(n % 10) + 1]>>

\* net.IP.String for an address To4 accepts: dotted decimal
IPString(ip) ==
  LET p == To4(ip)
  IN  Itoa(p[1]) \o <<".">> \o Itoa(p[2]) \o <<".">> \o Itoa(p[3])
        \o <<".">> \o Itoa(p[4])

(***************************************************************************)
(* internal/net: IsPrivateIP                                               *)
(***************************************************************************)
\* IsPrivateIP without the upper end of 172.16.0.0/12
IsPrivateIP_NoUpper(ipStr) ==
  LET Ranges(p) == IF p = NoIP THEN FALSE
                   ELSE \/ p[1] = 10
                        \/ p[1] = 172 /\ p[2] >= 16
                        \/ p[1] = 192 /\ p[2] = 168
  IN  Ranges(To4(ParseIP(ipStr)))

\* lines 424-445, on the result of ip.To4()
PrivateRanges(ip) ==
  IF ip = NoIP THEN FALSE
  ELSE IF ip[1] = 10 THEN TRUE
  ELSE IF ip[1] = 172 /\ ip[2] >= 16 /\ ip[2] <= 31 THEN TRUE
  ELSE IF ip[1] = 192 /\ ip[2] = 168 THEN TRUE
  ELSE FALSE

\* lines 419-422, on the result of net.ParseIP(ipStr)
ParsedIsPrivate(ip) == IF ip = NoIP THEN FALSE ELSE PrivateRanges(To4(ip))

IsPrivateIP(ipStr) == ParsedIsPrivate(ParseIP(ipStr))

(***************************************************************************)
(* strings.ToLower, HasPrefix, Contains on character sequences             *)
(***************************************************************************)
UpperLetters == <<"A", "B", "C", "D", "E", "F", "G", "H", "I", "J", "K", "L",
                  "M", "N", "O", "P", "Q", "R", "S", "T", "U", "V", "W", "X",
                  "Y", "Z">>

LowerLetters == <<"a", "b", "c", "d", "e", "f", "g", "h", "i", "j", "k", "l",
                  "m", "n", "o", "p", "q", "r", "s", "t", "u", "v", "w", "x",
                  "y", "z">>

LowerChar(c) ==
  IF \E i \in 1..26 : UpperLetters[i] = c
  THEN LowerLetters[CHOOSE i \in 1..26 : UpperLetters[i] = c]
  ELSE c

ToLower(s) == [i \in 1..Len(s) |-> LowerChar(s[i])]

HasPrefix(s, p) == Len(s) >= Len(p) /\ SubSeq(s, 1, Len(p)) = p

Contains(s, p) ==
  \E i \in 1..(Len(s) - Len(p) + 1) : SubSeq(s, i, i + Len(p) - 1) = p

(***************************************************************************)
(* internal/net: classifyInterface, PrioritizeInterfaces                   *)
(***************************************************************************)
VirtualPrefixes == {<<"d", "o", "c", "k", "e", "r">>, <<"v", "e", "t", "h">>,
                    <<"b", "r", "-">>, <<"v", "i", "r", "b", "r">>,
                    <<"v", "m", "n", "e", "t">>, <<"v", "b", "o", "x">>}

WifiPrefixes == {<<"w", "l", "a", "n">>, <<"w", "l">>, <<"w", "i", "f", "i">>}

WifiInfix == <<"w", "i", "-", "f", "i">>

EthernetPrefixes == {<<"e", "t", "h">>, <<"e", "n">>, <<"e", "m">>,
                     <<"e", "n", "o">>, <<"e", "n", "p">>, <<"e", "n", "s">>}

\* classifyInterface with the Wi-Fi rule tried before the virtual rule
classifyInterface_WifiFirst(name) ==
  LET nameLower == ToLower(name)
  IN  IF \/ \E p \in WifiPrefixes : HasPrefix(nameLower, p)
         \/ Contains(nameLower, WifiInfix) THEN "wifi"
      ELSE IF \E p \in VirtualPrefixes : HasPrefix(nameLower, p)
           THEN "virtual"
      ELSE "ethernet"

classifyInterface(name) ==
  LET nameLower == ToLower(name)
  IN  IF \E p \in VirtualPrefixes : HasPrefix(nameLower, p) THEN "virtual"
      ELSE IF \/ \E p \in WifiPrefixes : HasPrefix(nameLower, p)
              \/ Contains(nameLower, WifiInfix) THEN "wifi"
      ELSE IF \E p \in EthernetPrefixes : HasPrefix(nameLower, p)
           THEN "ethernet"
      ELSE "ethernet"

IsVirtual(iface) == iface.Type = "virtual"

IsPhysical(iface) == iface.Type # "virtual"

IsWifiOrEthernet(iface) == iface.Type = "wifi" \/ iface.Type = "ethernet"

\* the selection, or <<>> for nil
NoSelection == <<>>

\* PrioritizeInterfaces preferring Wi-Fi over Ethernet among the physical
PrioritizeInterfaces_WifiFirst(interfaces) ==
  IF Len(interfaces) = 0 THEN NoSelection
  ELSE LET physical == SelectSeq(interfaces, IsPhysical)
           virtual == SelectSeq(interfaces, IsVirtual)
           IsWifi(iface) == iface.Type = "wifi"
       IN  IF Len(physical) > 0
           THEN LET pref == SelectSeq(physical, IsWifi)
                IN  IF Len(pref) > 0 THEN pref[1] ELSE physical[1]
           ELSE virtual[1]

PrioritizeInterfaces(interfaces) ==
  IF Len(interfaces) = 0 THEN NoSelection
  ELSE LET physical == SelectSeq(interfaces, IsPhysical)
           virtual == SelectSeq(interfaces, IsVirtual)
       IN  IF Len(physical) > 0
           THEN LET pref == SelectSeq(physical, IsWifiOrEthernet)
                IN  IF Len(pref) > 0 THEN pref[1] ELSE physical[1]
           ELSE IF Len(virtual) > 0 THEN virtual[1]
           ELSE NoSelection

(***************************************************************************)
(* internal/net: GetAllInterfaces, DetectLocalIP                           *)
(*                                                                         *)
(* The operating system's answer to net.Interfaces() is a record           *)
(*   [err, ifaces], each interface [Name, Up, Loopback, AddrsErr, Addrs],  *)
(* each address [kind, ip]: kind "IPNet" or "IPAddr" carries ip as 4 or 16 *)
(* bytes, any other kind carries none.                                     *)
(***************************************************************************)
AddrIP(addr) == IF addr.kind \in {"IPNet", "IPAddr"} THEN addr.ip ELSE NoIP

\* the inner loop: one interface's addresses to NetworkInfo entries
RECURSIVE AddrCandidates(_, _)
AddrCandidates(iface, addrs) ==
  IF addrs = <<>> THEN <<>>
  ELSE LET ip == AddrIP(Head(addrs))
           rest == AddrCandidates(iface, Tail(addrs))
       IN  IF ip = NoIP \/ To4(ip) = NoIP THEN rest
           ELSE LET ipStr == IPString(ip)
                IN  IF ~IsPrivateIP(ipStr) THEN rest
                    ELSE <<[IP |-> ipStr, Interface |-> iface.Name,
                            Type |-> classifyInterface(iface.Name)]>> \o rest

\* IfaceCandidates without the FlagUp test of line 368
IfaceCandidates_NoUpCheck(iface) ==
  IF iface.Loopback THEN <<>>
  ELSE IF iface.AddrsErr THEN <<>>
  ELSE AddrCandidates(iface, iface.Addrs)

IfaceCandidates(iface) ==
  IF ~iface.Up THEN <<>>
  ELSE IF iface.Loopback THEN <<>>
  ELSE IF iface.AddrsErr THEN <<>>
  ELSE AddrCandidates(iface, iface.Addrs)

RECURSIVE ScanInterfaces(_)
ScanInterfaces(ifaces) ==
  IF ifaces = <<>> THEN <<>>
  ELSE IfaceCandidates(Head(ifaces)) \o ScanInterfaces(Tail(ifaces))

\* [err, list]
GetAllInterfaces(os) ==
  IF os.err THEN [err |-> TRUE, list |-> <<>>]
  ELSE [err |-> FALSE, list |-> ScanInterfaces(os.ifaces)]

\* [err, info]: err names the failure, "" on success
\* lines 349-354, on the result of PrioritizeInterfaces
DetectSelected(selected) ==
  IF selected = NoSelection
  THEN [err |-> "no suitable private IP address found", info |-> NoSelection]
  ELSE [err |-> "", info |-> selected]

\* lines 341-349, on the result of GetAllInterfaces
DetectFrom(r) ==
  IF r.err
  THEN [err |-> "failed to get network interfaces", info |-> NoSelection]
  ELSE IF Len(r.list) = 0
       THEN [err |-> "no active network interfaces found",
             info |-> NoSelection]
       ELSE DetectSelected(PrioritizeInterfaces(r.list))

DetectLocalIP(os) == DetectFrom(GetAllInterfaces(os))

(***************************************************************************)
(* cmd/start: transformURL (strings.ReplaceAll twice)                      *)
(***************************************************************************)
RECURSIVE ReplaceAll(_, _, _)
ReplaceAll(s, old, new) ==
  IF Len(s) < Len(old) THEN s
  ELSE IF SubSeq(s, 1, Len(old)) = old
       THEN new \o ReplaceAll(Drop(s, Len(old)), old, new)
       ELSE <<s[1]>> \o ReplaceAll(Tail(s), old, new)

Localhost == <<"l", "o", "c", "a", "l", "h", "o", "s", "t">>

Loopback4 == <<"1", "2", "7", ".", "0", ".", "0", ".", "1">>

transformURL(url, newIP) ==
  ReplaceAll(ReplaceAll(url, Localhost, newIP), Loopback4, newIP)

(***************************************************************************)
(* internal/env: EnvWriter. A file's content is its sequence of lines:     *)
(*   [kind |-> "comment", text], [kind |-> "blank"] and, for KEY=VALUE,    *)
(*   [kind |-> "kv", key, raw], raw the text after the "=" sign.           *)
(* NoFile stands for a file that does not exist. A variable is [Key,       *)
(* Value, Managed].                                                        *)
(***************************************************************************)
NoFile == <<[kind |-> "absent"]>>

Keys(vars) == {vars[i].Key : i \in 1..Len(vars)}

IsUnmanaged(v) == ~v.Managed

MarkerLine == [kind |-> "comment", text |-> "# lanup:managed"]

BlankLine == [kind |-> "blank"]

\* the value of a KEY=VALUE line: a pair of double or single quotes around
\* it is removed
Unquote(raw) ==
  IF /\ Len(raw) >= 2
     /\ raw[1] = raw[Len(raw)]
     /\ raw[1] \in {"\"", "'"}
  THEN SubSeq(raw, 2, Len(raw) - 1)
  ELSE raw

\* Read that does not know the marker: no variable is managed
ReadVars_NoMarker(content) ==
  IF content = NoFile THEN <<>>
  ELSE LET isKV(line) == line.kind = "kv"
           kvs == SelectSeq(content, isKV)
       IN  [n \in 1..Len(kvs) |->
              [Key |-> kvs[n].key, Value |-> Unquote(kvs[n].raw),
               Managed |-> FALSE]]

\* Read with the marker taken to mark every later line too
ReadVars_MarkerSticks(content) ==
  IF content = NoFile THEN <<>>
  ELSE LET at(i) == [line |-> content[i],
                     managed |-> \E k \in 1..(i - 1) : content[k] = MarkerLine]
           isKV(x) == x.line.kind = "kv"
           kvs == SelectSeq([i \in 1..Len(content) |-> at(i)], isKV)
       IN  [n \in 1..Len(kvs) |->
              [Key |-> kvs[n].line.key, Value |-> Unquote(kvs[n].line.raw),
               Managed |-> kvs[n].managed]]

\* Read: a missing file reads as no variables; every KEY=VALUE line is a
\* variable, managed when the line before it is the marker; comment and
\* blank lines are no variables
ReadVars(content) ==
  IF content = NoFile THEN <<>>
  ELSE LET at(i) == [line |-> content[i],
                     managed |-> i > 1 /\ content[i - 1] = MarkerLine]
           isKV(x) == x.line.kind = "kv"
           kvs == SelectSeq([i \in 1..Len(content) |-> at(i)], isKV)
       IN  [n \in 1..Len(kvs) |->
              [Key |-> kvs[n].line.key, Value |-> Unquote(kvs[n].line.raw),
               Managed |-> kvs[n].managed]]

\* Merge that leaves a key the user has set to the user
Merge_UserWins(newVars, existing) ==
  LET user == SelectSeq(existing, IsUnmanaged)
      free(v) == v.Key \notin Keys(user)
  IN  SelectSeq(newVars, free) \o user

\* Merge: the new managed variables, then the existing unmanaged variables
\* whose key is not among them, in their order
Merge(newVars, existing) ==
  LET kept(v) == ~v.Managed /\ v.Key \notin Keys(newVars)
  IN  newVars \o SelectSeq(existing, kept)

\* Write with the marker before the user variables too
WriteVars_MarksAll(vars) ==
  [i \in 1..(2 * Len(vars)) |->
     IF i % 2 = 1 THEN MarkerLine
     ELSE [kind |-> "kv", key |-> vars[i \div 2].Key,
           raw |-> vars[i \div 2].Value]]

\* Write: the header, each managed variable behind a marker line, then the
\* separator and the user variables when there are any; values unquoted
WriteVars(vars) ==
  LET isManaged(v) == v.Managed
      managed == SelectSeq(vars, isManaged)
      user == SelectSeq(vars, IsUnmanaged)
      kv(v) == [kind |-> "kv", key |-> v.Key, raw |-> v.Value]
  IN  << [kind |-> "comment", text |-> "# Generated by lanup on <time>"],
         [kind |-> "comment",
          text |-> "# Do not edit the managed variables manually"],
         BlankLine >>
      \o [i \in 1..(2 * Len(managed)) |->
            IF i % 2 = 1 THEN MarkerLine ELSE kv(managed[i \div 2])]
      \o (IF Len(user) = 0 THEN <<>>
          ELSE << BlankLine,
                  [kind |-> "comment",
                   text |-> "# User variables (preserved)"] >>
               \o [i \in 1..Len(user) |-> kv(user[i])])

(***************************************************************************)
(* The environment of the watch-mode model: the operating system's         *)
(* interface tables the host moves between, the project configuration and  *)
(* the output file found at start.                                         *)
(***************************************************************************)
V6(lastByte) == Zeros(15) \o <<lastByte>>

IfLo == [Name |-> <<"l", "o">>, Up |-> TRUE, Loopback |-> TRUE,
         AddrsErr |-> FALSE,
         Addrs |-> <<[kind |-> "IPNet", ip |-> <<127, 0, 0, 1>>],
                     [kind |-> "IPNet", ip |-> V6(1)]>>]

IfWlanA == [Name |-> <<"w", "l", "a", "n", "0">>, Up |-> TRUE,
            Loopback |-> FALSE, AddrsErr |-> FALSE,
            Addrs |-> <<[kind |-> "IPNet", ip |-> <<254, 128>> \o V6(9)],
                        [kind |-> "IPNet", ip |-> <<192, 168, 1, 100>>]>>]

IfWlanB == [Name |-> <<"W", "L", "A", "N", "0">>, Up |-> TRUE,
            Loopback |-> FALSE, AddrsErr |-> FALSE,
            Addrs |-> <<[kind |-> "IPAddr",
                         ip |-> V4InV6Prefix \o <<192, 168, 1, 101>>]>>]

IfEthPublic == [Name |-> <<"e", "t", "h", "0">>, Up |-> TRUE,
                Loopback |-> FALSE, AddrsErr |-> FALSE,
                Addrs |-> <<[kind |-> "IPNet", ip |-> <<8, 8, 8, 8>>],
                            [kind |-> "IPNet", ip |-> <<172, 32, 0, 1>>],
                            [kind |-> "other", ip |-> <<10, 0, 0, 7>>]>>]

IfEthDown == [Name |-> <<"e", "n", "p", "3", "s", "0">>, Up |-> FALSE,
              Loopback |-> FALSE, AddrsErr |-> FALSE,
              Addrs |-> <<[kind |-> "IPNet", ip |-> <<10, 0, 0, 5>>]>>]

IfEthAddrsErr == [Name |-> <<"e", "m", "1">>, Up |-> TRUE,
                  Loopback |-> FALSE, AddrsErr |-> TRUE,
                  Addrs |-> <<[kind |-> "IPNet", ip |-> <<10, 0, 0, 6>>]>>]

IfDocker == [Name |-> <<"d", "o", "c", "k", "e", "r", "0">>, Up |-> TRUE,
             Loopback |-> FALSE, AddrsErr |-> FALSE,
             Addrs |-> <<[kind |-> "IPNet", ip |-> <<172, 17, 0, 1>>]>>]

\* the interface tables: Wi-Fi with one lease, Wi-Fi with the next lease,
\* no usable interface, only a virtual bridge usable
NetConfigs ==
  << [err |-> FALSE, ifaces |-> <<IfLo, IfDocker, IfEthDown, IfWlanA>>],
     [err |-> FALSE, ifaces |-> <<IfLo, IfDocker, IfEthPublic, IfWlanB>>],
     [err |-> FALSE, ifaces |-> <<IfLo, IfEthPublic, IfEthDown, IfEthAddrsErr>>],
     [err |-> FALSE, ifaces |-> <<IfLo, IfDocker, IfEthPublic>>] >>

NumNetConfigs == Len(NetConfigs)

\* .lanup.yaml: vars, auto_detect
ProjectConfig ==
  [Vars |-> << [Key |-> "API_URL",
                Value |-> <<"h", "t", "t", "p", ":", "/", "/", "l", "o", "c",
                            "a", "l", "h", "o", "s", "t", ":", "8", "0", "?",
                            "c", "b", "=", "1", "2", "7", ".", "0", ".", "0",
                            ".", "1">>] >>,
   AutoDetect |-> [Docker |-> FALSE, Supabase |-> FALSE]]

\* an output file left by an earlier run under another configuration, to
\* which the user added a variable
OldFile ==
  << [kind |-> "comment", text |-> "# Generated by lanup on <time>"],
     [kind |-> "comment",
      text |-> "# Do not edit the managed variables manually"],
     BlankLine,
     MarkerLine,
     [kind |-> "kv", key |-> "API_URL",
      raw |-> <<"h", "t", "t", "p", ":", "/", "/", "1", "0", ".", "9", ".",
                "9", ".", "9", ":", "8", "0">>],
     MarkerLine,
     [kind |-> "kv", key |-> "OLD_URL",
      raw |-> <<"h", "t", "t", "p", ":", "/", "/", "1", "0", ".", "9", ".",
                "9", ".", "9", ":", "8", "1">>],
     BlankLine,
     [kind |-> "comment", text |-> "# User variables (preserved)"],
     [kind |-> "kv", key |-> "SECRET_KEY", raw |-> <<"s", "3">>] >>

\* an output file the user wrote by hand: it sets the variable the
\* configuration names too
UserFile ==
  << [kind |-> "comment", text |-> "# my settings"],
     [kind |-> "kv", key |-> "SECRET_KEY", raw |-> <<"\"", "s", "3", "\"">>],
     BlankLine,
     [kind |-> "kv", key |-> "API_URL",
      raw |-> <<"h", "t", "t", "p", ":", "/", "/", "m", "y", ".", "h", "o",
                "s", "t">>] >>

InitialFiles == {NoFile, OldFile, UserFile}

\* bounds of the model
MaxNetChanges == 2

(***************************************************************************)
(* State                                                                   *)
(***************************************************************************)
VARIABLES
  os,          \* index of the interface table the host has now
  netChanges,  \* network changes so far
  ioFailed,    \* history: a read or write of the output file has failed
  flags,       \* StartCmd: [Watch, NoEnv, DryRun], and whether .lanup.yaml loads
  file,        \* content of the output file
  bak,         \* content of <output>.bak
  mpc,         \* main goroutine: position in Run / watchMode
  mres,        \* what Run returned
  ex,          \* executeStart's locals, per caller ("main", "cb")
  wpc,         \* watcher goroutine: position in Start / checkIPChange
  wret,        \* what Start returned
  wNew,        \* the address the watcher's last detection resolved
  wOld,        \* checkIPChange's oldIP
  CurrentIP,   \* IPWatcher.CurrentIP
  mu,          \* IPWatcher.mu: the set of holders
  stopped,     \* IPWatcher.stopped
  stopCh,      \* IPWatcher.stopCh: "open" or "closed"
  ctxDone,     \* the context handed to Start is cancelled
  tickC,       \* ticker.C holds a tick (capacity 1)
  sigCh,       \* sigCh holds a signal (capacity 1)
  errCh,       \* errCh holds Start's error (capacity 1)
  exited,      \* the process has exited
  rpc,         \* a status reader: position in GetCurrentIP
  rres,        \* what GetCurrentIP returned last
  calls,       \* history: the OnChange invocations, in order
  tk,          \* history: the poll tick in progress or last completed
  ipHist,      \* history: the values CurrentIP has held, in order
  initFailed,  \* history: Start's initial detection failed
  sigTaken,    \* history: watchMode took a signal from sigCh
  probe        \* IsPrivateIP on its own: the input and the result

netV == <<os, netChanges>>

fsV == <<ioFailed, file, bak>>

mainV == <<mpc, mres>>

watchV == <<wpc, wret, wNew, wOld>>

sharedV == <<CurrentIP, mu, stopped, stopCh, ctxDone>>

chanV == <<tickC, sigCh, errCh>>

readV == <<rpc, rres>>

histV == <<calls, tk, ipHist, initFailed>>

sysVars == <<netV, fsV, flags, mainV, ex, watchV, sharedV, chanV, exited,
             readV, histV, sigTaken>>

vars == <<sysVars, probe>>

NoAddr == <<>>

ExIdle == [pc |-> "idle", err |-> "nil", ip |-> NoAddr, existing |-> <<>>]

NoTick == [phase |-> "none", stored0 |-> NoAddr, res |-> NoAddr,
           ok |-> FALSE, ncalls0 |-> 0, afterStop |-> FALSE,
           prevFailed |-> FALSE]

NoProbe == [kind |-> "none"]

\* the command lines: start, start --watch, start --watch --dry-run,
\* start --no-env, and start with a .lanup.yaml that does not load
FlagSets ==
  { [Watch |-> FALSE, NoEnv |-> FALSE, DryRun |-> FALSE, ConfigOK |-> TRUE],
    [Watch |-> TRUE, NoEnv |-> FALSE, DryRun |-> FALSE, ConfigOK |-> TRUE],
    [Watch |-> TRUE, NoEnv |-> FALSE, DryRun |-> TRUE, ConfigOK |-> TRUE],
    [Watch |-> FALSE, NoEnv |-> TRUE, DryRun |-> FALSE, ConfigOK |-> TRUE],
    [Watch |-> FALSE, NoEnv |-> FALSE, DryRun |-> FALSE, ConfigOK |-> FALSE] }

\* the state before Run: the host is on its Wi-Fi lease, the output file is
\* absent or left by an earlier run
SysInit ==
  /\ os = 1
  /\ netChanges = 0
  /\ ioFailed = FALSE
  /\ flags \in FlagSets
  /\ file \in InitialFiles
  /\ bak = NoFile
  /\ mpc = "run"
  /\ mres = "none"
  /\ ex = [c \in {"main", "cb"} |-> ExIdle]
  /\ wpc = "none"
  /\ wret = "none"
  /\ wNew = NoAddr
  /\ wOld = NoAddr
  /\ CurrentIP = NoAddr
  /\ mu = {}
  /\ stopped = FALSE
  /\ stopCh = "open"
  /\ ctxDone = FALSE
  /\ tickC = FALSE
  /\ sigCh = FALSE
  /\ errCh = <<>>
  /\ exited = FALSE
  /\ rpc = "idle"
  /\ rres = NoAddr
  /\ calls = <<>>
  /\ tk = NoTick
  /\ ipHist = <<NoAddr>>
  /\ initFailed = FALSE
  /\ sigTaken = FALSE

Init == SysInit /\ probe = NoProbe

(***************************************************************************)
(* The environment's steps                                                 *)
(***************************************************************************)
\* the host's network changes: a lease renewal, an interface going away
NetChange ==
  /\ ~exited
  /\ netChanges < MaxNetChanges
  /\ \E n \in 1..NumNetConfigs : n # os /\ os' = n
  /\ netChanges' = netChanges + 1
  /\ UNCHANGED <<fsV, flags, mainV, ex, watchV, sharedV, chanV, exited, readV,
                 histV, probe, sigTaken>>

\* the ticker created by Start delivers a tick; a tick not yet taken is kept,
\* further ones are dropped
TickerRunning ==
  wpc \notin {"none", "st_check", "st_detect", "st_lock", "st_set", "done"}

Tick ==
  /\ ~exited
  /\ TickerRunning
  /\ ~tickC
  /\ tickC' = TRUE
  /\ UNCHANGED <<netV, fsV, flags, mainV, ex, watchV, sharedV, sigCh, errCh,
                 exited, readV, histV, probe, sigTaken>>

\* SIGINT or SIGTERM once signal.Notify has registered sigCh
SignalRegistered == mpc \in {"wm_select", "wm_stop_sig", "wm_stop_err"}

Signal ==
  /\ ~exited
  /\ SignalRegistered
  /\ ~sigCh
  /\ sigCh' = TRUE
  /\ UNCHANGED <<netV, fsV, flags, mainV, ex, watchV, sharedV, tickC, errCh,
                 exited, readV, histV, probe, sigTaken>>

\* Run has returned: main returns and the process ends, whatever the
\* watcher goroutine is doing
Exit ==
  /\ ~exited
  /\ mpc = "returned"
  /\ exited' = TRUE
  /\ UNCHANGED <<netV, fsV, flags, mainV, ex, watchV, sharedV, chanV, readV,
                 histV, probe, sigTaken>>

(***************************************************************************)
(* cmd/start: executeStart, run by Run ("main") and by the OnChange        *)
(* callback ("cb"). Its locals are ex[c]; pc "ret" holds its return value  *)
(* err ("nil" or the LanupError code) for the caller to take.              *)
(***************************************************************************)
\* the variables of the configuration (the auto-detect providers add theirs
\* when enabled)
CollectVars(cfg) == cfg.Vars

\* lines 143-185: the variables the providers add to the collected ones.
\* dk is Docker's answer [available, err, containers], each container
\* [Name, Ports] with its host ports; sb is Supabase's answer [err,
\* services], each service [name, port]. A failing provider adds nothing.
AutoDetectVars(cfgVars, cfg, dk, sb) ==
  LET Set(vs, key, value) ==
        IF \E i \in 1..Len(vs) : vs[i].Key = key
        THEN [i \in 1..Len(vs) |->
                IF vs[i].Key = key THEN [Key |-> key, Value |-> value]
                ELSE vs[i]]
        ELSE Append(vs, [Key |-> key, Value |-> value])
      Upper(w, from, to) ==
        [i \in 1..Len(w) |->
           IF w[i] = from THEN to
           ELSE IF \E k \in 1..26 : LowerLetters[k] = w[i]
                THEN UpperLetters[CHOOSE k \in 1..26 : LowerLetters[k] = w[i]]
                ELSE w[i]]
      RECURSIVE Dec(_)
      Dec(n) == IF n < 10 THEN <<DecDigits[n + 1]>>
                ELSE Dec(n \div 10) \o <<DecDigits[(n % 10) + 1]>>
      Url(port) == <<"h", "t", "t", "p", ":", "/", "/">> \o Localhost
                     \o <<":">> \o Dec(port)
      DockerKey(name) ==
        <<"D", "O", "C", "K", "E", "R", "_">> \o Upper(name, "-", "_")
          \o <<"_", "P", "O", "R", "T">>
      SupabaseKey(name) ==
        <<"S", "U", "P", "A", "B", "A", "S", "E", "_">>
          \o Upper(name, "_", "_") \o <<"_", "P", "O", "R", "T">>
      RECURSIVE Ports(_, _, _)
      Ports(vs, name, ports) ==
        IF ports = <<>> THEN vs
        ELSE Ports(Set(vs, DockerKey(name), Url(Head(ports))), name,
                   Tail(ports))
      RECURSIVE Containers(_, _)
      Containers(vs, cs) ==
        IF cs = <<>> THEN vs
        ELSE Containers(Ports(vs, Head(cs).Name, Head(cs).Ports), Tail(cs))
      RECURSIVE Services(_, _)
      Services(vs, ss) ==
        IF ss = <<>> THEN vs
        ELSE Services(Set(vs, SupabaseKey(Head(ss).name), Url(Head(ss).port)),
                      Tail(ss))
      withDocker ==
        IF cfg.AutoDetect.Docker /\ dk.available /\ ~dk.err
        THEN Containers(cfgVars, dk.containers) ELSE cfgVars
  IN  IF cfg.AutoDetect.Supabase /\ ~sb.err
      THEN Services(withDocker, sb.services) ELSE withDocker

\* line 189: ranging over the map visits its entries in any order
RangeOrders(cfgVars) ==
  { [i \in 1..Len(cfgVars) |-> cfgVars[f[i]]] :
      f \in Permutations(1..Len(cfgVars)) }

\* lines 187-196: every value rewritten, every variable managed
ResolveVars(cfgVars, ip) ==
  [i \in 1..Len(cfgVars) |->
     [Key |-> cfgVars[i].Key, Value |-> transformURL(cfgVars[i].Value, ip),
      Managed |-> TRUE]]

ExReturn(c, err) ==
  ex' = [ex EXCEPT ![c] = [pc |-> "ret", err |-> err, ip |-> NoAddr,
                           existing |-> <<>>]]

\* ExDetect without the return of lines 198-202
ExDetect_IgnoresFlags(c) ==
  /\ ex[c].pc = "detect"
  /\ \E r \in {DetectLocalIP(NetConfigs[os])} :
         IF r.err # "" THEN ExReturn(c, "ErrNoNetwork")
         ELSE ex' = [ex EXCEPT ![c] = [pc |-> "read", err |-> "nil",
                                       ip |-> r.info.IP, existing |-> <<>>]]
  /\ UNCHANGED fsV

\* lines 123-202: detection, and the display-only return of --no-env and
\* --dry-run
ExDetect(c) ==
  /\ ex[c].pc = "detect"
  /\ \E r \in {DetectLocalIP(NetConfigs[os])} :
         IF r.err # "" THEN ExReturn(c, "ErrNoNetwork")
         ELSE IF flags.NoEnv \/ flags.DryRun THEN ExReturn(c, "nil")
         ELSE ex' = [ex EXCEPT ![c] = [pc |-> "read", err |-> "nil",
                                       ip |-> r.info.IP, existing |-> <<>>]]
  /\ UNCHANGED fsV

\* ExRead with the backup taken before the file is read
ExRead_BacksUpFirst(c) ==
  /\ ex[c].pc = "read"
  /\ bak' = IF file = NoFile THEN bak ELSE file
  /\ \/ /\ ex' = [ex EXCEPT ![c].pc = "write",
                            ![c].existing = ReadVars(file)]
        /\ UNCHANGED <<ioFailed, file>>
     \/ /\ ioFailed' = TRUE
        /\ ExReturn(c, "ErrFileNotFound")
        /\ UNCHANGED file

\* lines 204-210: envWriter.Read, which may fail
ExRead(c) ==
  /\ ex[c].pc = "read"
  /\ \/ /\ ex' = [ex EXCEPT ![c].pc = "write",
                            ![c].existing = ReadVars(file)]
        /\ UNCHANGED fsV
     \/ /\ ioFailed' = TRUE
        /\ ExReturn(c, "ErrFileNotFound")
        /\ UNCHANGED <<file, bak>>

\* ExWrite handing Write the resolved variables instead of the merged ones
ExWrite_NoMerge(c) ==
  /\ ex[c].pc = "write"
  /\ \/ /\ \E cfgVars \in RangeOrders(CollectVars(ProjectConfig)) :
             file' = WriteVars(ResolveVars(cfgVars, ex[c].ip))
        /\ bak' = IF file = NoFile THEN bak ELSE file
        /\ ExReturn(c, "nil")
        /\ UNCHANGED ioFailed
     \/ /\ ioFailed' = TRUE
        /\ ExReturn(c, "ErrPermissionDenied")
        /\ bak' \in {bak, IF file = NoFile THEN bak ELSE file}
        /\ UNCHANGED file

\* ExWrite with the backup taken after the file is written
ExWrite_BackupAfter(c) ==
  /\ ex[c].pc = "write"
  /\ \/ /\ \E cfgVars \in RangeOrders(CollectVars(ProjectConfig)) :
             file' = WriteVars(Merge(ResolveVars(cfgVars, ex[c].ip),
                                     ex[c].existing))
        /\ bak' = file'
        /\ ExReturn(c, "nil")
        /\ UNCHANGED ioFailed
     \/ /\ ioFailed' = TRUE
        /\ ExReturn(c, "ErrPermissionDenied")
        /\ bak' \in {bak, IF file = NoFile THEN bak ELSE file}
        /\ UNCHANGED file

\* lines 212-230: Merge and Write; Write backs the old file up first, and
\* it may fail before or after the backup is taken
ExWrite(c) ==
  /\ ex[c].pc = "write"
  /\ \/ /\ \E cfgVars \in RangeOrders(CollectVars(ProjectConfig)) :
             file' = WriteVars(Merge(ResolveVars(cfgVars, ex[c].ip),
                                     ex[c].existing))
        /\ bak' = IF file = NoFile THEN bak ELSE file
        /\ ExReturn(c, "nil")
        /\ UNCHANGED ioFailed
     \/ /\ ioFailed' = TRUE
        /\ ExReturn(c, "ErrPermissionDenied")
        /\ bak' \in {bak, IF file = NoFile THEN bak ELSE file}
        /\ UNCHANGED file

ExecuteStart(c) == ExDetect(c) \/ ExRead(c) \/ ExWrite(c)

(***************************************************************************)
(* cmd/start: Run and watchMode, the main goroutine                        *)
(***************************************************************************)
\* Run, lines 94-106: the configuration loads or Run returns
RunLoad ==
  /\ ~exited
  /\ mpc = "run"
  /\ IF flags.ConfigOK
     THEN /\ mpc' = "exec"
          /\ ex' = [ex EXCEPT !["main"].pc = "detect"]
          /\ UNCHANGED mres
     ELSE /\ mpc' = "returned"
          /\ mres' = "ErrInvalidConfig"
          /\ UNCHANGED ex
  /\ UNCHANGED <<netV, fsV, flags, watchV, sharedV, chanV, exited, readV,
                 histV, probe, sigTaken>>

RunExec ==
  /\ ~exited
  /\ mpc = "exec"
  /\ ExecuteStart("main")
  /\ UNCHANGED <<netV, flags, mainV, watchV, sharedV, chanV, exited, readV,
                 histV, probe, sigTaken>>

\* Run, lines 106-118
RunAfterExec ==
  /\ ~exited
  /\ mpc = "exec"
  /\ ex["main"].pc = "ret"
  /\ ex' = [ex EXCEPT !["main"] = ExIdle]
  /\ IF ex["main"].err # "nil"
     THEN mpc' = "returned" /\ mres' = ex["main"].err
     ELSE IF flags.Watch
          THEN mpc' = "wm_spawn" /\ UNCHANGED mres
          ELSE mpc' = "returned" /\ mres' = "nil"
  /\ UNCHANGED <<netV, fsV, flags, watchV, sharedV, chanV, exited, readV,
                 histV, probe, sigTaken>>

\* watchMode, lines 297-341: the watcher, its callback, the context, the
\* signal channel and the goroutine running Start
WmSpawn ==
  /\ ~exited
  /\ mpc = "wm_spawn"
  /\ mpc' = "wm_select"
  /\ wpc' = "st_check"
  /\ UNCHANGED <<netV, fsV, flags, mres, ex, wret, wNew, wOld, sharedV,
                 chanV, exited, readV, histV, probe, sigTaken>>

\* watchMode, lines 345-348: the signal case, up to cancel()
WmSelectSignal ==
  /\ ~exited
  /\ mpc = "wm_select"
  /\ sigCh
  /\ sigCh' = FALSE
  /\ ctxDone' = TRUE
  /\ mpc' = "wm_stop_sig"
  /\ sigTaken' = TRUE
  /\ UNCHANGED <<netV, fsV, flags, mres, ex, watchV, CurrentIP, mu, stopped,
                 stopCh, tickC, errCh, exited, readV, calls, tk, ipHist,
                 initFailed, probe>>

\* watchMode, lines 354-355: the error case, up to cancel()
WmSelectErr ==
  /\ ~exited
  /\ mpc = "wm_select"
  /\ errCh # <<>>
  /\ errCh' = <<>>
  /\ ctxDone' = TRUE
  /\ mpc' = "wm_stop_err"
  /\ UNCHANGED <<netV, fsV, flags, mres, ex, watchV, CurrentIP, mu, stopped,
                 stopCh, tickC, sigCh, exited, readV, histV, probe, sigTaken>>

\* IPWatcher.Stop under the mutex, then watchMode's return
WmStop ==
  /\ ~exited
  /\ mpc \in {"wm_stop_sig", "wm_stop_err"}
  /\ mu = {}
  /\ IF stopped THEN UNCHANGED <<stopped, stopCh>>
     ELSE stopped' = TRUE /\ stopCh' = "closed"
  /\ mpc' = "returned"
  /\ mres' = IF mpc = "wm_stop_sig" THEN "nil" ELSE "watcher error"
  /\ UNCHANGED <<netV, fsV, flags, ex, watchV, CurrentIP, mu, ctxDone,
                 chanV, exited, readV, histV, probe, sigTaken>>

(***************************************************************************)
(* internal/net: IPWatcher.Start and checkIPChange, the watcher goroutine  *)
(***************************************************************************)
Watcher == "watcher"

Reader == "reader"

\* sync.RWMutex: Lock needs no holder at all, RLock no writer
CanLock == mu = {}

CanRLock == Watcher \notin mu

\* Start, lines 36-41
StCheck ==
  /\ wpc = "st_check"
  /\ CanLock
  /\ IF stopped
     THEN wpc' = "done" /\ wret' = "nil"
     ELSE wpc' = "st_detect" /\ UNCHANGED wret
  /\ UNCHANGED <<wNew, wOld, sharedV, chanV, histV>>

\* Start, lines 43-47, and the goroutine of watchMode (lines 337-341)
\* sending the error it returns
\* (StDetect_Continues: the same with the error of line 45 ignored)
StDetect_Continues ==
  /\ wpc = "st_detect"
  /\ \E r \in {DetectLocalIP(NetConfigs[os])} :
         IF r.err # ""
         THEN /\ wpc' = "st_lock"
              /\ wNew' = NoAddr
              /\ initFailed' = TRUE
         ELSE /\ wpc' = "st_lock"
              /\ wNew' = r.info.IP
              /\ UNCHANGED initFailed
  /\ UNCHANGED <<wret, wOld, sharedV, chanV, calls, tk, ipHist>>

StDetect ==
  /\ wpc = "st_detect"
  /\ \E r \in {DetectLocalIP(NetConfigs[os])} :
         IF r.err # ""
         THEN /\ wpc' = "done"
              /\ wret' = "err"
              /\ errCh' = <<"err">>
              /\ initFailed' = TRUE
              /\ UNCHANGED wNew
         ELSE /\ wpc' = "st_lock"
              /\ wNew' = r.info.IP
              /\ UNCHANGED <<wret, errCh, initFailed>>
  /\ UNCHANGED <<wOld, sharedV, tickC, sigCh, calls, tk, ipHist>>

\* Start, line 49
\* (StLock_NoLock: the same without taking the mutex)
StLock_NoLock ==
  /\ wpc = "st_lock"
  /\ wpc' = "st_set"
  /\ UNCHANGED <<wret, wNew, wOld, sharedV, chanV, histV>>

StLock ==
  /\ wpc = "st_lock"
  /\ CanLock
  /\ mu' = {Watcher}
  /\ wpc' = "st_set"
  /\ UNCHANGED <<wret, wNew, wOld, CurrentIP, stopped, stopCh, ctxDone,
                 chanV, histV>>

\* Start, lines 50-55: the initial address, and the ticker
\* (StSet_Notifies: the same with OnChange called for the initial address)
StSet_Notifies ==
  /\ wpc = "st_set"
  /\ CurrentIP' = wNew
  /\ mu' = mu \ {Watcher}
  /\ ipHist' = Append(ipHist, wNew)
  /\ calls' = Append(calls, [old |-> CurrentIP, new |-> wNew,
                             good |-> CurrentIP, afterStop |-> FALSE,
                             prevFailed |-> FALSE])
  /\ wpc' = "loop"
  /\ wNew' = NoAddr
  /\ UNCHANGED <<wret, wOld, stopped, stopCh, ctxDone, chanV, tk,
                 initFailed>>

StSet ==
  /\ wpc = "st_set"
  /\ CurrentIP' = wNew
  /\ mu' = mu \ {Watcher}
  /\ ipHist' = Append(ipHist, wNew)
  /\ wpc' = "loop"
  /\ wNew' = NoAddr
  /\ UNCHANGED <<wret, wOld, stopped, stopCh, ctxDone, chanV, calls, tk,
                 initFailed>>

\* the select of lines 58-63: any case that can proceed may be chosen
LoopCtx ==
  /\ wpc = "loop"
  /\ ctxDone
  /\ wpc' = "done"
  /\ wret' = "ctx"
  /\ UNCHANGED <<wNew, wOld, sharedV, chanV, histV>>

LoopStop ==
  /\ wpc = "loop"
  /\ stopCh = "closed"
  /\ wpc' = "done"
  /\ wret' = "nil"
  /\ UNCHANGED <<wNew, wOld, sharedV, chanV, histV>>

LoopTick ==
  /\ wpc = "loop"
  /\ tickC
  /\ tickC' = FALSE
  /\ wpc' = "ck_detect"
  /\ tk' = [phase |-> "run", stored0 |-> CurrentIP, res |-> NoAddr,
            ok |-> FALSE, ncalls0 |-> Len(calls), afterStop |-> stopped,
            prevFailed |-> (tk.phase = "done" /\ ~tk.ok)]
  /\ UNCHANGED <<wret, wNew, wOld, sharedV, sigCh, errCh, calls, ipHist,
                 initFailed>>

\* checkIPChange, lines 87-90, and the continue of lines 64-67
\* (CkDetect_ExitsOnError: the same with the loop returning the error)
CkDetect_ExitsOnError ==
  /\ wpc = "ck_detect"
  /\ \E r \in {DetectLocalIP(NetConfigs[os])} :
         IF r.err # ""
         THEN /\ wpc' = "done"
              /\ wret' = "err"
              /\ tk' = [tk EXCEPT !.phase = "done", !.ok = FALSE]
              /\ UNCHANGED wNew
         ELSE /\ wpc' = "ck_lock1"
              /\ wNew' = r.info.IP
              /\ tk' = [tk EXCEPT !.res = r.info.IP, !.ok = TRUE]
              /\ UNCHANGED wret
  /\ UNCHANGED <<wOld, sharedV, chanV, calls, ipHist, initFailed>>

CkDetect ==
  /\ wpc = "ck_detect"
  /\ \E r \in {DetectLocalIP(NetConfigs[os])} :
         IF r.err # ""
         THEN /\ wpc' = "loop"
              /\ tk' = [tk EXCEPT !.phase = "done", !.ok = FALSE]
              /\ UNCHANGED wNew
         ELSE /\ wpc' = "ck_lock1"
              /\ wNew' = r.info.IP
              /\ tk' = [tk EXCEPT !.res = r.info.IP, !.ok = TRUE]
  /\ UNCHANGED <<wret, wOld, sharedV, chanV, calls, ipHist, initFailed>>

\* checkIPChange, line 92
CkLock1 ==
  /\ wpc = "ck_lock1"
  /\ CanLock
  /\ mu' = {Watcher}
  /\ wpc' = "ck_read"
  /\ UNCHANGED <<wret, wNew, wOld, CurrentIP, stopped, stopCh, ctxDone,
                 chanV, histV>>

\* checkIPChange, line 97
\* (ChangeDetected_Always: the same without the comparison)
ChangeDetected_Always(oldIP, newIP) == TRUE

ChangeDetected(oldIP, newIP) == oldIP # newIP

\* checkIPChange, lines 93-97 (and 107 when nothing changed)
CkRead ==
  /\ wpc = "ck_read"
  /\ mu' = mu \ {Watcher}
  /\ IF ChangeDetected(CurrentIP, wNew)
     THEN /\ wpc' = "ck_lock2"
          /\ wOld' = CurrentIP
          /\ UNCHANGED <<wNew, tk>>
     ELSE /\ wpc' = "loop"
          /\ wOld' = NoAddr
          /\ wNew' = NoAddr
          /\ tk' = [tk EXCEPT !.phase = "done"]
  /\ UNCHANGED <<wret, CurrentIP, stopped, stopCh, ctxDone, chanV, calls,
                 ipHist, initFailed>>

\* checkIPChange, line 98
CkLock2 ==
  /\ wpc = "ck_lock2"
  /\ CanLock
  /\ mu' = {Watcher}
  /\ wpc' = "ck_write"
  /\ UNCHANGED <<wret, wNew, wOld, CurrentIP, stopped, stopCh, ctxDone,
                 chanV, histV>>

\* checkIPChange, lines 99-100
\* (CkWrite_NoStore: the same without the assignment of line 99)
CkWrite_NoStore ==
  /\ wpc = "ck_write"
  /\ mu' = mu \ {Watcher}
  /\ wpc' = "cb_enter"
  /\ UNCHANGED <<wret, wNew, wOld, CurrentIP, stopped, stopCh, ctxDone,
                 chanV, calls, tk, ipHist, initFailed>>

\* (CkWrite_KeepsLock: the same with the mutex held until checkIPChange
\* returns)
CkWrite_KeepsLock ==
  /\ wpc = "ck_write"
  /\ CurrentIP' = wNew
  /\ ipHist' = Append(ipHist, wNew)
  /\ wpc' = "cb_enter"
  /\ UNCHANGED <<wret, wNew, wOld, mu, stopped, stopCh, ctxDone, chanV,
                 calls, tk, initFailed>>

CkWrite ==
  /\ wpc = "ck_write"
  /\ CurrentIP' = wNew
  /\ mu' = mu \ {Watcher}
  /\ ipHist' = Append(ipHist, wNew)
  /\ wpc' = "cb_enter"
  /\ UNCHANGED <<wret, wNew, wOld, stopped, stopCh, ctxDone, chanV, calls,
                 tk, initFailed>>

\* checkIPChange, lines 102-104: OnChange(oldIP, newIP) is called; the
\* callback of watchMode (lines 301-316) goes on to executeStart
\* (CbEnter_Async: the same with the callback started as a goroutine of
\* its own, checkIPChange returning at once)
CbEnter_Async ==
  /\ wpc = "cb_enter"
  /\ calls' = Append(calls, [old |-> wOld, new |-> wNew,
                             good |-> ipHist[Len(ipHist) - 1],
                             afterStop |-> tk.afterStop,
                             prevFailed |-> tk.prevFailed])
  /\ wpc' = "loop"
  /\ ex' = [ex EXCEPT !["cb"].pc = "detect"]
  /\ tk' = [tk EXCEPT !.phase = "done"]
  /\ UNCHANGED <<wret, wNew, wOld, sharedV, chanV, ipHist, initFailed, fsV>>

CbEnter ==
  /\ wpc = "cb_enter"
  /\ calls' = Append(calls, [old |-> wOld, new |-> wNew,
                             good |-> ipHist[Len(ipHist) - 1],
                             afterStop |-> tk.afterStop,
                             prevFailed |-> tk.prevFailed])
  /\ wpc' = "cb"
  /\ ex' = [ex EXCEPT !["cb"].pc = "detect"]
  /\ UNCHANGED <<wret, wNew, wOld, sharedV, chanV, tk, ipHist, initFailed, fsV>>

CbExec ==
  /\ wpc = "cb"
  /\ ExecuteStart("cb")
  /\ UNCHANGED <<watchV, sharedV, chanV, histV>>

\* the callback returns (lines 316-324), checkIPChange returns nil
CbReturn ==
  /\ wpc = "cb"
  /\ ex["cb"].pc = "ret"
  /\ ex' = [ex EXCEPT !["cb"] = ExIdle]
  /\ wpc' = "loop"
  /\ wOld' = NoAddr
  /\ wNew' = NoAddr
  /\ tk' = [tk EXCEPT !.phase = "done"]
  /\ UNCHANGED <<wret, sharedV, chanV, calls, ipHist, initFailed,
                 fsV>>

\* the steps that leave executeStart's locals and the files alone
WatcherOwn ==
  \/ StCheck \/ StDetect \/ StLock \/ StSet
  \/ LoopCtx \/ LoopStop \/ LoopTick
  \/ CkDetect \/ CkLock1 \/ CkRead \/ CkLock2 \/ CkWrite

WatcherStep ==
  /\ ~exited
  /\ \/ WatcherOwn /\ UNCHANGED <<ex, fsV>>
     \/ CbEnter
     \/ CbExec
     \/ CbReturn
  /\ UNCHANGED <<netV, flags, mainV, exited, readV, probe, sigTaken>>

(***************************************************************************)
(* internal/net: IPWatcher.GetCurrentIP, called by a status reader while   *)
(* the watcher exists                                                      *)
(***************************************************************************)
RdLock ==
  /\ ~exited
  /\ wpc # "none"
  /\ rpc = "idle"
  /\ CanRLock
  /\ mu' = mu \cup {Reader}
  /\ rpc' = "rd"
  /\ UNCHANGED <<netV, fsV, flags, mainV, ex, watchV, CurrentIP, stopped,
                 stopCh, ctxDone, chanV, exited, rres, histV, probe, sigTaken>>

RdRead ==
  /\ ~exited
  /\ rpc = "rd"
  /\ rres' = CurrentIP
  /\ mu' = mu \ {Reader}
  /\ rpc' = "idle"
  /\ UNCHANGED <<netV, fsV, flags, mainV, ex, watchV, CurrentIP, stopped,
                 stopCh, ctxDone, chanV, exited, histV, probe, sigTaken>>

(***************************************************************************)
(* The start command: one-shot runs and watch mode                         *)
(***************************************************************************)
Next ==
  \/ NetChange \/ Tick \/ Signal \/ Exit
  \/ RunLoad \/ RunExec \/ RunAfterExec
  \/ WmSpawn \/ WmSelectSignal \/ WmSelectErr \/ WmStop
  \/ WatcherStep

Spec == Init /\ [][Next]_vars

(***************************************************************************)
(* Watch mode (here with --dry-run) with a status reader calling           *)
(* GetCurrentIP beside it (the command itself never calls it)              *)
(***************************************************************************)
InitLock ==
  /\ Init
  /\ flags.Watch /\ flags.DryRun
  /\ file = NoFile

NextLock == Next \/ RdLock \/ RdRead

SpecLock == InitLock /\ [][NextLock]_vars

(***************************************************************************)
(* IsPrivateIP on its own: the strings it is given, built from dotted      *)
(* quads around the RFC 1918 boundaries, malformed variants of them and    *)
(* the IPv6 spellings that carry a dotted quad                             *)
(***************************************************************************)
FirstOctets == {9, 10, 11, 127, 172, 192, 256}

SecondOctets == {0, 15, 16, 31, 32, 167, 168, 169, 255}

LastOctets == {<<0, 0>>, <<255, 255>>}

\* the written shapes of a quad: as is, first octet with a leading zero,
\* three fields, five fields, a non-numeric field, a trailing dot
Shapes == {"quad", "lead0", "short", "long", "alpha", "dot"}

Dot == <<".">>

QuadText(q, shape) ==
  LET a == Itoa(q[1])
      b == Itoa(q[2])
      c == Itoa(q[3])
      d == Itoa(q[4])
      abc == a \o Dot \o b \o Dot \o c
  IN  CASE shape = "quad" -> abc \o Dot \o d
        [] shape = "lead0" -> <<"0">> \o abc \o Dot \o d
        [] shape = "short" -> abc
        [] shape = "long" -> abc \o Dot \o d \o Dot \o d
        [] shape = "alpha" -> a \o Dot \o <<"x">> \o Dot \o c \o Dot \o d
        [] shape = "dot" -> abc \o Dot \o d \o Dot

\* what precedes the quad: nothing, the IPv4-mapped IPv6 prefix in three
\* spellings, two other IPv6 prefixes, a stray character
MappedPrefixes ==
  { <<":", ":", "f", "f", "f", "f", ":">>,
    <<":", ":", "F", "F", "F", "F", ":">>,
    <<"0", ":", "0", ":", "0", ":", "0", ":", "0", ":",
      "f", "f", "f", "f", ":">> }

OtherPrefixes ==
  { <<":", ":">>, <<"f", "e", "8", "0", ":", ":">>, <<"x">> }

Prefixes == {<<>>} \cup MappedPrefixes \cup OtherPrefixes

\* how the text is written: "quad" a dotted quad with octets in 0..255,
\* "mapped" such a quad behind the IPv4-mapped prefix, "bad" anything else
FormOf(prefix, q, shape) ==
  IF shape = "quad" /\ \A i \in 1..4 : q[i] <= 255
  THEN IF prefix = <<>> THEN "quad"
       ELSE IF prefix \in MappedPrefixes THEN "mapped" ELSE "bad"
  ELSE "bad"

QuadInputs ==
  { [text |-> prefix \o QuadText(<<a, b, cd[1], cd[2]>>, shape),
     form |-> FormOf(prefix, <<a, b, cd[1], cd[2]>>, shape),
     v4 |-> <<a, b, cd[1], cd[2]>>] :
       prefix \in Prefixes, a \in FirstOctets, b \in SecondOctets,
       cd \in LastOctets, shape \in Shapes }

\* "", "invalid", "::1", and 10.0.0.1 and 8.8.8.8 as IPv4-mapped hex groups
OtherInputs ==
  { [text |-> <<>>, form |-> "bad", v4 |-> <<>>],
    [text |-> <<"i", "n", "v", "a", "l", "i", "d">>, form |-> "bad",
     v4 |-> <<>>],
    [text |-> <<":", ":", "1">>, form |-> "bad", v4 |-> <<>>],
    [text |-> <<":", ":", "f", "f", "f", "f", ":", "a", "0", "0", ":", "1">>,
     form |-> "mapped", v4 |-> <<10, 0, 0, 1>>],
    [text |-> <<":", ":", "f", "f", "f", "f", ":", "8", "0", "8", ":",
                "8", "0", "8">>,
     form |-> "mapped", v4 |-> <<8, 8, 8, 8>>] }

IPInputs == QuadInputs \cup OtherInputs

InitIP ==
  /\ SysInit
  /\ flags = [Watch |-> FALSE, NoEnv |-> FALSE, DryRun |-> FALSE,
              ConfigOK |-> TRUE]
  /\ file = NoFile
  /\ \E in \in IPInputs :
       probe = [kind |-> "in", text |-> in.text, form |-> in.form,
                v4 |-> in.v4]

\* the call IsPrivateIP(text)
CallIsPrivateIP ==
  /\ probe.kind = "in"
  /\ probe' = [kind |-> "out", text |-> probe.text, form |-> probe.form,
               v4 |-> probe.v4, out |-> IsPrivateIP(probe.text)]
  /\ UNCHANGED sysVars

NextIP == CallIsPrivateIP

SpecIP == InitIP /\ [][NextIP]_vars

(***************************************************************************)
(* Direct calls of the package functions, as the unit tests make them:     *)
(* one call per behaviour, its argument in probe and its result added to   *)
(* probe by the call.                                                      *)
(***************************************************************************)
MaxCands == 3

\* the i-th candidate of a list: its address and name tell its position
Candidate(i, type) ==
  [IP |-> <<"1", "0", ".", "0", ".", "0", ".">> \o Itoa(i),
   Interface |-> <<"i", "f">> \o Itoa(i), Type |-> type]

\* every list of at most MaxCands candidates over the three classes
CandLists ==
  UNION { { [i \in 1..n |-> Candidate(i, types[i])] :
              types \in [1..n -> {"wifi", "ethernet", "virtual"}] } :
          n \in 0..MaxCands }

\* interface names: the prefixes of the three rules and names that match
\* none, alone or behind another text, followed by nothing, a digit or
\* "wi-fi", in lower case, in upper case and capitalised
IfaceNames ==
  LET Stems ==
      { <<"d", "o", "c", "k", "e", "r">>, <<"v", "e", "t", "h">>,
        <<"b", "r", "-">>, <<"v", "i", "r", "b", "r">>,
        <<"v", "m", "n", "e", "t">>, <<"v", "b", "o", "x">>,
        <<"w", "l", "a", "n">>, <<"w", "l">>, <<"w", "i", "f", "i">>,
        <<"w", "i", "-", "f", "i">>, <<"e", "t", "h">>, <<"e", "n">>,
        <<"e", "m">>, <<"e", "n", "o">>, <<"e", "n", "p">>,
        <<"e", "n", "s">>, <<"u", "n", "k", "n", "o", "w", "n">>,
        <<"m", "y", "i", "n", "t", "e", "r", "f", "a", "c", "e">>,
        <<"l", "o">>, <<"b", "r">>, <<"v", "e", "t">>, <<"w">>,
        <<"u", "t", "u", "n">> }
      Heads == {<<>>, <<"x">>, <<"v", "b", "o", "x">>, <<"w", "l">>}
      Tails == {<<>>, <<"0">>, <<"1", "2", "3", "a", "b", "c">>,
                <<"-", "w", "i", "-", "f", "i">>}
      UpperChar(c) ==
        IF \E k \in 1..26 : LowerLetters[k] = c
        THEN UpperLetters[CHOOSE k \in 1..26 : LowerLetters[k] = c]
        ELSE c
      Cased(w, case) ==
        [i \in 1..Len(w) |->
           IF case = "upper" \/ (case = "capital" /\ i = 1)
           THEN UpperChar(w[i]) ELSE w[i]]
  IN  { Cased(h \o st \o t, case) :
          h \in Heads, st \in Stems, t \in Tails,
          case \in {"lower", "upper", "capital"} }

MaxSegs == 3

\* the inputs of the variable resolution: a configuration of two
\* variables, the first a URL template of up to MaxSegs pieces (each a
\* loopback token, a part of one, or other text), the second without a
\* loopback token, and a selected address
ResolveInputs ==
  LET Pieces == { Localhost, Loopback4, <<"x", "/">>,
                  <<"l", "o", "c", "a", "l">>,
                  <<"1", "2", "7", ".", "0", ".", "0", ".">>,
                  <<"2", "7", ".", "0", ".", "0", ".", "1">> }
      Join(ps) == IF Len(ps) = 0 THEN <<>>
                  ELSE IF Len(ps) = 1 THEN ps[1]
                  ELSE IF Len(ps) = 2 THEN ps[1] \o ps[2]
                  ELSE IF Len(ps) = 3 THEN ps[1] \o ps[2] \o ps[3]
                  ELSE ps[1] \o ps[2] \o ps[3] \o ps[4]
      Templates ==
        UNION { { Join(ps) : ps \in [1..n -> Pieces] } : n \in 0..MaxSegs }
  IN  { [cfg |-> [Vars |-> << [Key |-> "API_URL", Value |-> t],
                              [Key |-> "WS_URL",
                               Value |-> <<"w", "s", ":", "/", "/", "h",
                                           ":", "1">>] >>,
                  AutoDetect |-> [Docker |-> FALSE, Supabase |-> FALSE]],
         ip |-> ip] :
          t \in Templates,
          ip \in { <<"1", "0", ".", "0", ".", "0", ".", "1">>,
                   <<"1", "9", "2", ".", "1", "6", "8", ".", "1", ".", "5",
                     "0">> } }

MaxVars == 3

\* the inputs of Merge: up to MaxVars new managed variables and up to
\* MaxVars existing variables, managed or not, over three keys; the value
\* of an existing variable tells its position, the new value of B is
\* written between quotes
EnvInputs ==
  LET Pool == {"A", "B", "C"}
      KeyLists ==
        UNION { {ks \in [1..n -> Pool] :
                   \A i, j \in 1..n : ks[i] = ks[j] => i = j} :
                n \in 0..MaxVars }
      NewValue(k) == IF k = "B" THEN <<"\"", "n", "\"">> ELSE <<"n">>
  IN  UNION { { [new |-> [i \in 1..Len(ns) |->
                           [Key |-> ns[i], Value |-> NewValue(ns[i]),
                            Managed |-> TRUE]],
                 existing |-> [i \in 1..Len(es) |->
                                [Key |-> es[i], Value |-> <<"o">> \o Itoa(i),
                                 Managed |-> ms[i]]]] :
                  ns \in KeyLists, ms \in [1..Len(es) -> BOOLEAN] } :
              es \in KeyLists }

\* the inputs of a run with providers: a configuration of one variable
\* with each provider on or off, Docker absent, failing or answering with
\* two containers, Supabase failing or answering with one service
ProviderInputs ==
  LET Dockers ==
        { [available |-> FALSE, err |-> FALSE, containers |-> <<>>],
          [available |-> TRUE, err |-> TRUE, containers |-> <<>>],
          [available |-> TRUE, err |-> FALSE,
           containers |-> << [Name |-> <<"m", "y", "-", "w", "e", "b">>,
                              Ports |-> <<8080, 8443>>],
                             [Name |-> <<"d", "b">>, Ports |-> <<>>] >>] }
      Supabases ==
        { [err |-> TRUE, services |-> <<>>],
          [err |-> FALSE,
           services |-> << [name |-> <<"a", "p", "i", "_", "u", "r", "l">>,
                            port |-> 54321] >>] }
  IN  { [cfg |-> [Vars |-> << [Key |-> <<"A", "P", "I">>,
                               Value |-> <<"h", "t", "t", "p", ":", "/", "/">>
                                           \o Localhost
                                           \o <<":", "8", "0">>] >>,
                  AutoDetect |-> [Docker |-> d, Supabase |-> u]],
         dk |-> dk, sb |-> sb] :
          d \in BOOLEAN, u \in BOOLEAN, dk \in Dockers, sb \in Supabases }

\* ---- the exit code of the process ----

\* the codes of pkg/errors, and what a command can return to Execute: nil,
\* an error that is no LanupError (cobra's argument errors, fmt.Errorf), or
\* a LanupError with one of the codes
ErrorCodes ==
  {"ErrNoNetwork", "ErrInvalidConfig", "ErrFileNotFound",
   "ErrPermissionDenied", "ErrInvalidURL", "ErrDockerUnavailable"}

CommandResults == {"nil", "error"} \cup ErrorCodes

\* (*LanupError).ExitCode
ExitCode(code) ==
  CASE code = "ErrNoNetwork" -> 3
    [] code = "ErrInvalidConfig" -> 2
    [] code = "ErrFileNotFound" -> 1
    [] code = "ErrPermissionDenied" -> 4
    [] code = "ErrInvalidURL" -> 5
    [] code = "ErrDockerUnavailable" -> 1
    [] OTHER -> 1

\* Execute, and main around it: the status the process ends with
Execute(err) ==
  IF err # "nil"
  THEN IF err \in ErrorCodes THEN ExitCode(err) ELSE 1
  ELSE 0

\* ---- lanup init ----

\* .lanup.yaml as lines of YAML: no file, and the file of init_test.go
NoConfigFile == [exists |-> FALSE, text |-> <<>>]

ExistingConfigFile ==
  [exists |-> TRUE,
   text |-> << [indent |-> 0, key |-> "vars", value |-> ""],
               [indent |-> 2, key |-> "EXISTING", value |-> "value"],
               [indent |-> 0, key |-> "output", value |-> ".env.test"] >>]

\* config.GetDefaultProjectConfig
GetDefaultProjectConfig ==
  [Vars |-> << [Key |-> "API_URL", Value |-> "http://localhost:8000"],
               [Key |-> "DASHBOARD_URL", Value |-> "http://localhost:3000"],
               [Key |-> "SUPABASE_ANON_KEY", Value |-> "your-anon-key"],
               [Key |-> "SUPABASE_URL", Value |-> "http://localhost:54321"] >>,
   Output |-> ".env.local",
   AutoDetect |-> [Docker |-> TRUE, Supabase |-> TRUE]]

\* config.SaveProjectConfig: Validate, yaml.Marshal (the keys of a map in
\* order), os.WriteFile, which either replaces the content or fails on
\* opening the file and leaves it
SaveProjectConfig(cfgFile, config, writable) ==
  LET Bool(b) == IF b THEN "true" ELSE "false"
      Marshal ==
        << [indent |-> 0, key |-> "vars", value |-> ""] >>
        \o [i \in 1..Len(config.Vars) |->
              [indent |-> 4, key |-> config.Vars[i].Key,
               value |-> config.Vars[i].Value]]
        \o << [indent |-> 0, key |-> "output", value |-> config.Output],
               [indent |-> 0, key |-> "auto_detect", value |-> ""],
               [indent |-> 4, key |-> "docker",
                value |-> Bool(config.AutoDetect.Docker)],
               [indent |-> 4, key |-> "supabase",
                value |-> Bool(config.AutoDetect.Supabase)] >>
  IN  IF \/ config.Output = ""
         \/ \E i \in 1..Len(config.Vars) :
              config.Vars[i].Key = "" \/ config.Vars[i].Value = ""
      THEN [err |-> "invalid configuration", file |-> cfgFile]
      ELSE IF ~writable
      THEN [err |-> "failed to write config file", file |-> cfgFile]
      ELSE [err |-> "nil", file |-> [exists |-> TRUE, text |-> Marshal]]

\* (*InitCmd).Run that saves the default configuration whether or not a
\* file is there
InitCmdRun_Clobbers(c, cfgFile, writable) ==
  IF c.Format # "yaml"
  THEN [err |-> "Unsupported format", file |-> cfgFile]
  ELSE LET r == SaveProjectConfig(cfgFile, GetDefaultProjectConfig, writable)
       IN  IF r.err # "nil"
           THEN [err |-> "Failed to create configuration file",
                 file |-> r.file]
           ELSE [err |-> "nil", file |-> r.file]

\* (*InitCmd).Run: the error it returns and .lanup.yaml afterwards
InitCmdRun(c, cfgFile, writable) ==
  IF c.Format # "yaml" /\ c.Format # "toml"
  THEN [err |-> "Unsupported format", file |-> cfgFile]
  ELSE IF c.Format = "toml"
  THEN [err |-> "TOML format is not yet supported", file |-> cfgFile]
  ELSE IF cfgFile.exists /\ ~c.Force
  THEN [err |-> "Configuration file already exists", file |-> cfgFile]
  ELSE LET r == SaveProjectConfig(cfgFile, GetDefaultProjectConfig, writable)
       IN  IF r.err # "nil"
           THEN [err |-> "Failed to create configuration file",
                 file |-> r.file]
           ELSE [err |-> "nil", file |-> r.file]

\* the init commands tried: each format with and without --force, in a
\* directory with and without .lanup.yaml, writable or not
InitInputs ==
  [c : [Format : {"yaml", "toml", "json"}, Force : BOOLEAN],
   cfgFile : {NoConfigFile, ExistingConfigFile},
   writable : BOOLEAN]

InitCalls ==
  /\ SysInit
  /\ flags = [Watch |-> FALSE, NoEnv |-> FALSE, DryRun |-> FALSE,
              ConfigOK |-> TRUE]
  /\ file = NoFile
  /\ \/ \E l \in CandLists : probe = [kind |-> "cands", list |-> l]
     \/ \E n \in IfaceNames : probe = [kind |-> "name", name |-> n]
     \/ \E in \in ResolveInputs :
          probe = [kind |-> "tmpl", cfg |-> in.cfg, ip |-> in.ip]
     \/ \E in \in EnvInputs :
          probe = [kind |-> "merge", new |-> in.new,
                   existing |-> in.existing]
     \/ \E in \in ProviderInputs :
          probe = [kind |-> "auto", cfg |-> in.cfg, dk |-> in.dk,
                   sb |-> in.sb]
     \/ \E err \in CommandResults : probe = [kind |-> "cmd", err |-> err]
     \/ \E in \in InitInputs :
          probe = [kind |-> "init", c |-> in.c, cfgFile |-> in.cfgFile,
                   writable |-> in.writable]

\* the call PrioritizeInterfaces(list)
CallPrioritizeInterfaces ==
  /\ probe.kind = "cands"
  /\ probe' = [kind |-> "picked", list |-> probe.list,
               out |-> PrioritizeInterfaces(probe.list)]
  /\ UNCHANGED sysVars

\* the call classifyInterface(name)
CallClassifyInterface ==
  /\ probe.kind = "name"
  /\ probe' = [kind |-> "classified", name |-> probe.name,
               out |-> classifyInterface(probe.name)]
  /\ UNCHANGED sysVars

\* executeStart, lines 137-196: the variables of the configuration, each
\* value transformed
CallResolveVars ==
  /\ probe.kind = "tmpl"
  /\ \E cfgVars \in RangeOrders(CollectVars(probe.cfg)) :
       probe' = [kind |-> "resolved", cfg |-> probe.cfg, ip |-> probe.ip,
                 out |-> ResolveVars(cfgVars, probe.ip)]
  /\ UNCHANGED sysVars

\* the call with its arguments exchanged: Merge(existing, new)
CallMerge_Swapped ==
  /\ probe.kind = "merge"
  /\ probe' = [kind |-> "merged", new |-> probe.new,
               existing |-> probe.existing,
               out |-> Merge(probe.existing, probe.new)]
  /\ UNCHANGED sysVars

\* the call Merge(new, existing)
CallMerge ==
  /\ probe.kind = "merge"
  /\ probe' = [kind |-> "merged", new |-> probe.new,
               existing |-> probe.existing,
               out |-> Merge(probe.new, probe.existing)]
  /\ UNCHANGED sysVars

\* the call Write(merged)
CallWrite ==
  /\ probe.kind = "merged"
  /\ probe' = [kind |-> "written", new |-> probe.new,
               existing |-> probe.existing, out |-> probe.out,
               content |-> WriteVars(probe.out)]
  /\ UNCHANGED sysVars

\* the call Read() on the written file
CallRead ==
  /\ probe.kind = "written"
  /\ probe' = [kind |-> "read", new |-> probe.new,
               existing |-> probe.existing, out |-> probe.out,
               content |-> probe.content, back |-> ReadVars(probe.content)]
  /\ UNCHANGED sysVars

\* the call Merge(new, what was read back)
CallMergeAgain ==
  /\ probe.kind = "read"
  /\ probe' = [kind |-> "remerged", new |-> probe.new,
               existing |-> probe.existing, out |-> probe.out,
               content |-> probe.content, back |-> probe.back,
               again |-> Merge(probe.new, probe.back)]
  /\ UNCHANGED sysVars

\* executeStart returning an error when a provider it asked has failed
CallExecuteStart_ProviderAborts ==
  /\ probe.kind = "auto"
  /\ IF \/ probe.cfg.AutoDetect.Docker /\ probe.dk.available /\ probe.dk.err
        \/ probe.cfg.AutoDetect.Supabase /\ probe.sb.err
     THEN probe' = [kind |-> "ran", cfg |-> probe.cfg, dk |-> probe.dk,
                    sb |-> probe.sb, err |-> "ErrUnknown",
                    content |-> NoFile]
     ELSE \E cfgVars \in RangeOrders(AutoDetectVars(
                CollectVars(probe.cfg), probe.cfg, probe.dk, probe.sb)) :
            probe' = [kind |-> "ran", cfg |-> probe.cfg, dk |-> probe.dk,
                      sb |-> probe.sb, err |-> "nil",
                      content |-> WriteVars(Merge(
                        ResolveVars(cfgVars, <<"1", "0", ".", "0", ".",
                                               "0", ".", "5">>),
                        <<>>))]
  /\ UNCHANGED sysVars

\* executeStart, lines 137-219, with address 10.0.0.5 detected and no
\* output file yet: collect, ask the providers, transform, merge, write
CallExecuteStart ==
  /\ probe.kind = "auto"
  /\ \E cfgVars \in RangeOrders(AutoDetectVars(
           CollectVars(probe.cfg), probe.cfg, probe.dk, probe.sb)) :
       probe' = [kind |-> "ran", cfg |-> probe.cfg, dk |-> probe.dk,
                 sb |-> probe.sb, err |-> "nil",
                 content |-> WriteVars(Merge(
                   ResolveVars(cfgVars, <<"1", "0", ".", "0", ".", "0",
                                          ".", "5">>),
                   <<>>))]
  /\ UNCHANGED sysVars

\* the root command has returned err to Execute
CallExecute ==
  /\ probe.kind = "cmd"
  /\ probe' = [kind |-> "exited", err |-> probe.err,
               status |-> Execute(probe.err)]
  /\ UNCHANGED sysVars

\* lanup init
CallInitRun ==
  /\ probe.kind = "init"
  /\ \E r \in {InitCmdRun(probe.c, probe.cfgFile, probe.writable)} :
       probe' = [kind |-> "inited", c |-> probe.c, before |-> probe.cfgFile,
                 err |-> r.err, after |-> r.file]
  /\ UNCHANGED sysVars

NextCalls ==
  \/ CallPrioritizeInterfaces
  \/ CallClassifyInterface
  \/ CallResolveVars
  \/ CallMerge
  \/ CallWrite
  \/ CallRead
  \/ CallMergeAgain
  \/ CallExecuteStart
  \/ CallExecute
  \/ CallInitRun

SpecCalls == InitCalls /\ [][NextCalls]_vars

(***************************************************************************)
(* Successive runs of the tool on one output file, the configuration       *)
(* edited between the runs: each run reads the file, merges its resolved   *)
(* variables into what it read and writes the result (executeStart, lines  *)
(* 204-219). probe counts the runs and collects the keys that were managed *)
(* in a file a run wrote.                                                  *)
(***************************************************************************)
MaxRuns == 3

\* the resolved variables of the n-th run, whose configuration names keys
RunVars(keys, n) ==
  LET names == <<"API_URL", "OLD_URL", "SECRET_KEY">>
      named(v) == v.Key \in keys
  IN  SelectSeq([i \in 1..3 |-> [Key |-> names[i],
                                 Value |-> <<"v">> \o Itoa(n),
                                 Managed |-> TRUE]], named)

InitRuns ==
  /\ SysInit
  /\ flags = [Watch |-> FALSE, NoEnv |-> FALSE, DryRun |-> FALSE,
              ConfigOK |-> TRUE]
  /\ probe = [kind |-> "runs", n |-> 0, managed |-> {}]

\* one run: Read, Merge, Write (which backs the file up first)
RunTool ==
  /\ probe.kind = "runs"
  /\ probe.n < MaxRuns
  /\ \E keys \in SUBSET {"API_URL", "OLD_URL", "SECRET_KEY"} :
       \E merged \in {Merge(RunVars(keys, probe.n + 1), ReadVars(file))} :
         /\ file' = WriteVars(merged)
         /\ probe' = [kind |-> "runs", n |-> probe.n + 1,
                      managed |-> probe.managed \cup
                                    {merged[i].Key :
                                       i \in {k \in 1..Len(merged) :
                                                merged[k].Managed}}]
  /\ bak' = IF file = NoFile THEN bak ELSE file
  /\ UNCHANGED <<netV, ioFailed, flags, mainV, ex, watchV, sharedV, chanV,
                 exited, readV, histV, sigTaken>>

NextRuns == RunTool

SpecRuns == InitRuns /\ [][NextRuns]_vars

(***************************************************************************)
(* internal/net: the IPWatcher on its own. Start is called once, by a      *)
(* goroutine of its own, and Stop any number of times by other goroutines, *)
(* before, while and after Start runs. probe holds the callers of Stop and *)
(* the history of the stop channel.                                        *)
(***************************************************************************)
MaxStopCalls == 2

Stoppers == {"s1", "s2"}

InitStop ==
  /\ SysInit
  /\ flags = [Watch |-> TRUE, NoEnv |-> FALSE, DryRun |-> TRUE,
              ConfigOK |-> TRUE]
  /\ file = NoFile
  /\ probe = [kind |-> "stop",
              pc |-> [c \in Stoppers |-> "idle"],
              left |-> [c \in Stoppers |-> MaxStopCalls],
              returned |-> 0, closes |-> 0, panics |-> 0,
              startAfterStop |-> FALSE]

\* a goroutine calls Start (once), after some Stop has returned or not
StartOnce ==
  /\ wpc = "none"
  /\ wpc' = "st_check"
  /\ probe' = [probe EXCEPT !.startAfterStop = (probe.returned > 0)]
  /\ UNCHANGED <<netV, fsV, flags, mainV, ex, wret, wNew, wOld, sharedV,
                 chanV, exited, readV, histV, sigTaken>>

\* Stop with neither Lock nor the deferred Unlock
Stop_NoLock(c) ==
  /\ \/ /\ probe.pc[c] = "idle"
        /\ probe.left[c] > 0
        /\ probe' = [probe EXCEPT !.pc[c] = IF stopped THEN "unlock"
                                                     ELSE "set"]
        /\ UNCHANGED <<mu, stopped, stopCh>>
     \/ /\ probe.pc[c] = "set"
        /\ stopped' = TRUE
        /\ stopCh' = "closed"
        /\ probe' = [probe EXCEPT
                       !.pc[c] = "unlock",
                       !.closes = IF stopCh = "open" THEN @ + 1 ELSE @,
                       !.panics = IF stopCh = "open" THEN @ ELSE @ + 1]
        /\ UNCHANGED mu
     \/ /\ probe.pc[c] = "unlock"
        /\ probe' = [probe EXCEPT !.pc[c] = "idle", !.left[c] = @ - 1,
                                  !.returned = @ + 1]
        /\ UNCHANGED <<mu, stopped, stopCh>>
  /\ UNCHANGED <<netV, fsV, flags, mainV, ex, watchV, CurrentIP, ctxDone,
                 chanV, exited, readV, histV, sigTaken>>

\* Stop, called by c: Lock (line 74), the test of stopped (77-79), the
\* assignment and close (81-82) where closing a closed channel panics, and
\* the deferred Unlock (75), which also runs when the call panics
Stop(c) ==
  /\ \/ /\ probe.pc[c] = "idle"
        /\ probe.left[c] > 0
        /\ CanLock
        /\ mu' = {c}
        /\ probe' = [probe EXCEPT !.pc[c] = "check"]
        /\ UNCHANGED <<stopped, stopCh>>
     \/ /\ probe.pc[c] = "check"
        /\ probe' = [probe EXCEPT !.pc[c] = IF stopped THEN "unlock"
                                                     ELSE "set"]
        /\ UNCHANGED <<mu, stopped, stopCh>>
     \/ /\ probe.pc[c] = "set"
        /\ stopped' = TRUE
        /\ stopCh' = "closed"
        /\ probe' = [probe EXCEPT
                       !.pc[c] = "unlock",
                       !.closes = IF stopCh = "open" THEN @ + 1 ELSE @,
                       !.panics = IF stopCh = "open" THEN @ ELSE @ + 1]
        /\ UNCHANGED mu
     \/ /\ probe.pc[c] = "unlock"
        /\ mu' = mu \ {c}
        /\ probe' = [probe EXCEPT !.pc[c] = "idle", !.left[c] = @ - 1,
                                  !.returned = @ + 1]
        /\ UNCHANGED <<stopped, stopCh>>
  /\ UNCHANGED <<netV, fsV, flags, mainV, ex, watchV, CurrentIP, ctxDone,
                 chanV, exited, readV, histV, sigTaken>>

StopCall == \E c \in Stoppers : Stop(c)

NextStop ==
  \/ NetChange \/ Tick
  \/ StartOnce
  \/ StopCall
  \/ WatcherStep

SpecStop == InitStop /\ [][NextStop]_vars


(***************************************************************************)
(* Properties of the watcher (IPWatcher.Start, checkIPChange, Stop)        *)
(***************************************************************************)
LastCall == calls[Len(calls)]

\* C1: on every poll tick whose scan succeeds, OnChange is called exactly
\* once with (stored address before the tick, resolved address) when the two
\* differ, and not at all when they are equal
C1_CallbackOncePerChange ==
  /\ (tk.phase = "done" /\ tk.ok) =>
       IF tk.res # tk.stored0
       THEN /\ Len(calls) = tk.ncalls0 + 1
            /\ LastCall.old = tk.stored0
            /\ LastCall.new = tk.res
       ELSE Len(calls) = tk.ncalls0
  /\ tk.phase = "run" =>
       /\ Len(calls) \in {tk.ncalls0, tk.ncalls0 + 1}
       /\ (tk.ok /\ tk.res = tk.stored0) => Len(calls) = tk.ncalls0
       /\ Len(calls) = tk.ncalls0 + 1 =>
            LastCall.old = tk.stored0 /\ LastCall.new = tk.res

\* a second change has been polled and reported: two calls, the last one for
\* the tick just completed
C1_Witness ==
  /\ tk.phase = "done" /\ tk.ok
  /\ tk.res # tk.stored0
  /\ Len(calls) = 2
  /\ tk.ncalls0 = 1

\* C2: OnChange is never called for a tick that the loop's wait took after
\* Stop had been called (a tick pending at Stop is not processed)
C2_NoCallbackAfterStop ==
  \A i \in 1..Len(calls) : ~calls[i].afterStop

\* C3: watch mode does not return while the callback is still running
\* executeStart
C3_ReturnWaitsForCallback ==
  [][(mpc \in {"wm_stop_sig", "wm_stop_err"} /\ mpc' = "returned") =>
       wpc # "cb"]_vars

ManagedOf(content) ==
  LET managed(v) == v.Managed
  IN  SelectSeq(ReadVars(content), managed)

\* C4: in watch mode, whenever the watcher waits for its next tick with no
\* callback in flight, the managed values of the output file were generated
\* with the address the watcher stores (also when no file operation failed)
C4_FileFollowsStoredAddress ==
  (/\ flags.Watch /\ ~flags.NoEnv /\ ~flags.DryRun
   /\ ~ioFailed
   /\ wpc = "loop") =>
     ManagedOf(file) = ResolveVars(CollectVars(ProjectConfig), CurrentIP)

\* C5: OnChange is never called for the initial address Start establishes,
\* only for changes that later polls detect
C5_NoCallbackForInitialAddress ==
  /\ wpc \in {"none", "st_check", "st_detect", "st_lock", "st_set"} =>
       calls = <<>>
  /\ tk.phase = "none" => calls = <<>>
  /\ \A i \in 1..Len(calls) : calls[i].old # NoAddr

\* Start has stored the initial address and waits for the first tick
C5_Witness ==
  /\ wpc = "loop"
  /\ tk.phase = "none"
  /\ CurrentIP # NoAddr
  /\ ipHist = <<NoAddr, CurrentIP>>

\* C6: a poll whose detection fails leaves the loop running, the stored
\* address unchanged and OnChange uncalled; a later change is reported with
\* the last stored address as the old value
C6_PollFailureTolerated ==
  /\ (tk.phase = "done" /\ ~tk.ok) =>
       /\ CurrentIP = tk.stored0
       /\ Len(calls) = tk.ncalls0
       /\ wpc \in {"loop", "done"}
       /\ wpc = "done" => wret \in {"ctx", "nil"}
  /\ \A i \in 1..Len(calls) :
       calls[i].old = calls[i].good /\ calls[i].new # calls[i].old

\* a change reported by the poll that follows a failed poll
C6_Witness ==
  \E i \in 1..Len(calls) : calls[i].prevFailed

\* C7 as stated: when the initial detection fails, Start returns the error
\* without entering the loop, the address stays unset, OnChange is never
\* called, and watch mode ends with a watcher error
C7_InitFailureEndsInWatcherError ==
  initFailed =>
    /\ wpc = "done" /\ wret = "err"
    /\ CurrentIP = NoAddr
    /\ calls = <<>>
    /\ tk.phase = "none"
    /\ mpc = "returned" => mres = "watcher error"

\* C7 as amended: ... and watch mode ends with a watcher error unless it
\* takes a shutdown signal first, and then it returns nil
C7_InitFailureEndsWatchMode ==
  initFailed =>
    /\ wpc = "done" /\ wret = "err"
    /\ CurrentIP = NoAddr
    /\ calls = <<>>
    /\ tk.phase = "none"
    /\ mpc = "wm_select" => errCh = <<"err">>
    /\ mpc = "wm_stop_err" => ~sigTaken
    /\ mpc = "returned" =>
         \/ mres = "watcher error" /\ ~sigTaken
         \/ mres = "nil" /\ sigTaken

C7_Witness ==
  /\ initFailed
  /\ mpc = "returned"
  /\ mres = "watcher error"

(***************************************************************************)
(* Properties of the stored address under the mutex (SpecLock)             *)
(***************************************************************************)
\* C8: Start's assignment, checkIPChange's read and update, and
\* GetCurrentIP touch CurrentIP only while holding the mutex; a writer holds
\* it alone, so a concurrent GetCurrentIP never overlaps a write and returns
\* a value CurrentIP has held
C8_StoredAddressUnderMutex ==
  /\ wpc \in {"st_set", "ck_read", "ck_write"} => Watcher \in mu
  /\ rpc = "rd" => Reader \in mu
  /\ Watcher \in mu => mu = {Watcher}
  /\ ~(rpc = "rd" /\ wpc \in {"st_set", "ck_write"})
  /\ \E i \in 1..Len(ipHist) : rres = ipHist[i]

\* GetCurrentIP holds the read lock while checkIPChange waits to write, and
\* a reader has returned the address before the change
C8_Witness ==
  /\ rpc = "rd"
  /\ wpc = "ck_lock2"
  /\ rres # NoAddr
  /\ rres = CurrentIP

(***************************************************************************)
(* Properties of the scanner and of the addresses it hands on              *)
(***************************************************************************)
\* the RFC 1918 blocks, on the 4 bytes of an address
InRFC1918(b) ==
  \/ b[1] = 10
  \/ b[1] = 172 /\ b[2] \in 16..31
  \/ b[1] = 192 /\ b[2] = 168

\* the candidate names an interface of the table that is up, is not the
\* loopback, and carries the candidate's address in an RFC 1918 block
FromUsableInterface(cand, ifaces) ==
  \E i \in 1..Len(ifaces) :
    /\ ifaces[i].Name = cand.Interface
    /\ ifaces[i].Up
    /\ ~ifaces[i].Loopback
    /\ \E j \in 1..Len(ifaces[i].Addrs) :
         LET b == To4(ifaces[i].Addrs[j].ip)
         IN  /\ b # NoIP
             /\ InRFC1918(b)
             /\ cand.IP = IPString(b)

\* the dotted-quad texts of the RFC 1918 addresses the interface tables hold
TableAddrs ==
  UNION { UNION { { NetConfigs[n].ifaces[i].Addrs[j].ip :
                      j \in 1..Len(NetConfigs[n].ifaces[i].Addrs) } :
                  i \in 1..Len(NetConfigs[n].ifaces) } :
          n \in 1..NumNetConfigs }

PrivateTexts ==
  { IPString(b) : b \in { q \in { To4(a) : a \in TableAddrs } :
                            q # NoIP /\ InRFC1918(q) } }

\* the configured variables resolved with an RFC 1918 address
PrivateResolutions ==
  { ResolveVars(CollectVars(ProjectConfig), ip) : ip \in PrivateTexts }

\* a call of DetectLocalIP is about to run: in Start, in checkIPChange or
\* in executeStart
ScanPending ==
  \/ wpc \in {"st_detect", "ck_detect"}
  \/ \E c \in {"main", "cb"} : ex[c].pc = "detect"

\* what the scan and the detection give on an interface table
ScanIsPrivateOnly(table) ==
  /\ \A r \in {GetAllInterfaces(table)} :
       \A k \in 1..Len(r.list) :
         FromUsableInterface(r.list[k], table.ifaces)
  /\ \A d \in {DetectLocalIP(table)} :
       d.err = "" => d.info.IP \in PrivateTexts

\* C9: every candidate of the scan comes from an interface that is up, not
\* the loopback, and has an IPv4 address in 10.0.0.0/8, 172.16.0.0/12 or
\* 192.168.0.0/16; every address DetectLocalIP returns, the watcher stores,
\* OnChange receives as new or executeStart substitutes is such an address
C9_PrivateOnly ==
  /\ ScanPending => ScanIsPrivateOnly(NetConfigs[os])
  /\ CurrentIP \in PrivateTexts \cup {NoAddr}
  /\ wNew \in PrivateTexts \cup {NoAddr}
  /\ \A i \in 1..Len(calls) : calls[i].new \in PrivateTexts
  /\ \A c \in {"main", "cb"} : ex[c].ip \in PrivateTexts \cup {NoAddr}
  /\ file \notin InitialFiles => ManagedOf(file) \in PrivateResolutions

\* the host has moved to the table with public addresses beside the Wi-Fi
\* lease, and the watcher has reported, stored and written that lease
C9_Witness ==
  /\ os = 2
  /\ ScanPending
  /\ CurrentIP = IPString(<<192, 168, 1, 101>>)
  /\ Len(calls) = 1
  /\ LastCall.new = CurrentIP
  /\ ManagedOf(file) = ResolveVars(CollectVars(ProjectConfig), CurrentIP)

(***************************************************************************)
(* Properties of IsPrivateIP (SpecIP)                                      *)
(***************************************************************************)
\* C10 as stated: IsPrivateIP is true exactly for the dotted quads a.b.c.d
\* with a = 10, or a = 172 and 16 <= b <= 31, or a = 192 and b = 168, and
\* false for every string that is not a well-formed IPv4 address
C10_ExactOnDottedQuadsOnly ==
  probe.kind = "out" =>
    probe.out = (probe.form = "quad" /\ InRFC1918(probe.v4))

\* C10 as amended: ... true exactly for those dotted quads and for the IPv6
\* spellings of them under the IPv4-mapped prefix ::ffff:0:0/96, false for
\* every other string
C10_ExactOnIPv4AndMapped ==
  probe.kind = "out" =>
    probe.out = (probe.form \in {"quad", "mapped"} /\ InRFC1918(probe.v4))

\* the upper boundary of 172.16.0.0/12 has been tested and found private
C10_Witness ==
  /\ probe.kind = "out"
  /\ probe.form = "quad"
  /\ probe.v4 = <<172, 31, 255, 255>>
  /\ probe.out

(***************************************************************************)
(* Properties of the selection (PrioritizeInterfaces, classifyInterface)   *)
(***************************************************************************)
\* C11: PrioritizeInterfaces returns no selection exactly for the empty
\* list; otherwise the first candidate in list order whose class is not
\* virtual when there is one (Wi-Fi is not preferred over Ethernet, an
\* earlier virtual candidate is skipped), else the first (virtual)
\* candidate; the result is an element of the input
C11_FirstPhysicalElseFirstVirtual ==
  probe.kind = "picked" =>
    LET in == probe.list
        n == Len(in)
        NonVirtual == {i \in 1..n : in[i].Type # "virtual"}
    IN  /\ (probe.out = NoSelection) <=> (n = 0)
        /\ n > 0 => \E i \in 1..n : probe.out = in[i]
        /\ NonVirtual # {} =>
             \E i \in NonVirtual : /\ \A j \in NonVirtual : i <= j
                                   /\ probe.out = in[i]
        /\ (n > 0 /\ NonVirtual = {}) => probe.out = in[1]

\* a virtual candidate, then Ethernet, then Wi-Fi: Ethernet is selected
C11_Witness ==
  /\ probe.kind = "picked"
  /\ Len(probe.list) = 3
  /\ probe.list[1].Type = "virtual"
  /\ probe.list[2].Type = "ethernet"
  /\ probe.list[3].Type = "wifi"
  /\ probe.out = probe.list[2]

\* two characters equal up to the case of a letter
FoldEq(c, d) ==
  c = d \/ \E k \in 1..26 : {c, d} = {UpperLetters[k], LowerLetters[k]}

\* p occurs in name at position i, whatever the case of the letters
FoldAt(name, p, i) ==
  /\ i + Len(p) - 1 <= Len(name)
  /\ \A k \in 1..Len(p) : FoldEq(name[i + k - 1], p[k])

\* C12: classifyInterface answers for every name, without regard to case,
\* by the first rule that matches: a name starting with docker, veth, br-,
\* virbr, vmnet or vbox is virtual (whatever else it matches); otherwise a
\* name starting with wlan, wl or wifi, or containing wi-fi, is wifi; every
\* other name is ethernet, so a name no rule matches is never virtual
C12_ClassifiedByFirstRule ==
  probe.kind = "classified" =>
    LET name == probe.name
        virtual ==
          \E p \in {<<"d", "o", "c", "k", "e", "r">>, <<"v", "e", "t", "h">>,
                    <<"b", "r", "-">>, <<"v", "i", "r", "b", "r">>,
                    <<"v", "m", "n", "e", "t">>, <<"v", "b", "o", "x">>} :
            FoldAt(name, p, 1)
        wifi ==
          \/ \E p \in {<<"w", "l", "a", "n">>, <<"w", "l">>,
                       <<"w", "i", "f", "i">>} : FoldAt(name, p, 1)
          \/ \E i \in 1..Len(name) :
               FoldAt(name, <<"w", "i", "-", "f", "i">>, i)
    IN  probe.out = IF virtual THEN "virtual"
                    ELSE IF wifi THEN "wifi" ELSE "ethernet"

\* VBOX-WI-FI matches the virtual rule and the Wi-Fi rule and is virtual
C12_Witness ==
  /\ probe.kind = "classified"
  /\ probe.name = <<"V", "B", "O", "X", "-", "W", "I", "-", "F", "I">>
  /\ probe.out = "virtual"

(***************************************************************************)
(* Properties of the variable resolution (executeStart, transformURL)      *)
(***************************************************************************)
\* the text with every occurrence of localhost and of 127.0.0.1 in it
\* replaced by the address, found in one pass from the left
RECURSIVE SubstTokens(_, _)
SubstTokens(text, ip) ==
  IF text = <<>> THEN <<>>
  ELSE IF \/ HasPrefix(text, <<"l", "o", "c", "a", "l", "h", "o", "s", "t">>)
          \/ HasPrefix(text, <<"1", "2", "7", ".", "0", ".", "0", ".", "1">>)
       THEN ip \o SubstTokens(Drop(text, 9), ip)
       ELSE <<Head(text)>> \o SubstTokens(Tail(text), ip)

\* C13: the resolved variables have exactly the keys of the input mapping,
\* each value is the input value with every occurrence of localhost and of
\* 127.0.0.1 replaced by the selected address (a value with neither token
\* is unchanged), and every resolved variable is managed
C13_OnlyLoopbackTokensRewritten ==
  probe.kind = "resolved" =>
    LET in == probe.cfg.Vars
        out == probe.out
    IN  /\ Len(out) = Len(in)
        /\ Keys(out) = Keys(in)
        /\ \A i \in 1..Len(out) :
             /\ out[i].Managed
             /\ \E j \in 1..Len(in) :
                  /\ in[j].Key = out[i].Key
                  /\ out[i].Value = SubstTokens(in[j].Value, probe.ip)

(***************************************************************************)
(* Properties of the env file (EnvWriter.Read, Merge, Write, Backup)       *)
(***************************************************************************)
\* the positions of key in a list of variables
At(vs, key) == {i \in 1..Len(vs) : vs[i].Key = key}

\* the unmanaged variables of a list whose key is not in a set, in order
UserOutside(vs, keys) ==
  LET keep(v) == ~v.Managed /\ v.Key \notin keys
  IN  SelectSeq(vs, keep)

FileKeys(content) ==
  {content[i].key : i \in {k \in 1..Len(content) : content[k].kind = "kv"}}

\* the keys that are managed in the existing file and absent from the new
\* managed set
StaleKeys(new, existing) ==
  {existing[j].Key : j \in {k \in 1..Len(existing) : existing[k].Managed}}
    \ Keys(new)

\* C15: a key that is managed in the existing file and absent from the new
\* managed set appears neither in the merged result nor in the written
\* file
C15_StaleManagedDropped ==
  /\ probe.kind \in {"merged", "written"} =>
       StaleKeys(probe.new, probe.existing) \cap Keys(probe.out) = {}
  /\ probe.kind = "written" =>
       StaleKeys(probe.new, probe.existing) \cap FileKeys(probe.content) = {}

\* a file is written for a merge that had a stale key and a renewed key
C15_Witness ==
  /\ probe.kind = "written"
  /\ StaleKeys(probe.new, probe.existing) # {}
  /\ \E j \in 1..Len(probe.existing) :
       /\ probe.existing[j].Managed
       /\ probe.existing[j].Key \in Keys(probe.new)
  /\ FileKeys(probe.content) # {}

\* every unmanaged variable of before whose key is not in named is a
\* variable of after, with its value and unmanaged
UserKept(before, after, named) ==
  \A i \in 1..Len(before) :
    (~before[i].Managed /\ before[i].Key \notin named) =>
      \E k \in 1..Len(after) : after[k] = before[i]

ManagedIn(vs) == {vs[i] : i \in {k \in 1..Len(vs) : vs[k].Managed}}

C18_ManagedIsSticky ==
  probe.kind = "runs" =>
    \A i \in 1..Len(ReadVars(file)) :
      ReadVars(file)[i].Key \in probe.managed => ReadVars(file)[i].Managed

\* after two runs or more, one key that a run managed is gone from the
\* file and another is in it
C18_Witness ==
  /\ probe.kind = "runs"
  /\ probe.n >= 2
  /\ \E k \in probe.managed : k \notin FileKeys(file)
  /\ \E k \in probe.managed : k \in FileKeys(file)

\* C19: when a run writes the output file while a previous version exists,
\* the backup then holds exactly what the file held immediately before the
\* write, in place of any older backup; when there is no output file yet,
\* the backup step does nothing and the write still succeeds
C19_BackupBeforeOverwrite ==
  [][\A c \in {"main", "cb"} :
       (ex[c].pc = "write" /\ ex'[c].pc = "ret" /\ ex'[c].err = "nil") =>
         /\ file' # NoFile
         /\ bak' = IF file = NoFile THEN bak ELSE file]_vars

\* a later run has replaced the backup of an earlier one: the backup holds
\* a file that a run wrote
C19_Witness ==
  /\ bak \notin InitialFiles
  /\ file \notin InitialFiles
  /\ file # bak

\* the variables in the order Write puts them: managed first
ManagedFirst(vs) ==
  LET isManaged(v) == v.Managed
  IN  SelectSeq(vs, isManaged) \o SelectSeq(vs, IsUnmanaged)

\* in a written file the marker line is right before the line of each
\* managed key and of no unmanaged key, and every KEY=VALUE line is the
\* line of a written variable
MarkersAsWritten(content, written) ==
  \A i \in 1..Len(content) :
    content[i].kind = "kv" =>
      \E k \in 1..Len(written) :
        /\ written[k].Key = content[i].key
        /\ written[k].Managed <=> (i > 1 /\ content[i - 1] = MarkerLine)

\* the value begins or ends with a quote character
QuoteAtEnd(value) ==
  /\ Len(value) > 0
  /\ {value[1], value[Len(value)]} \cap {"\"", "'"} # {}

C21_DisplayOnlyRunsLeaveFiles ==
  [][(flags.NoEnv \/ flags.DryRun) =>
       /\ file' = file
       /\ bak' = bak
       /\ \A c \in {"main", "cb"} : ex'[c].pc \notin {"read", "write"}]_vars

\* in watch mode with --dry-run the callback's run has returned without
\* error for the second change of address, next to an existing file
C21_Witness ==
  /\ flags.Watch
  /\ flags.DryRun
  /\ Len(calls) = 2
  /\ ex["cb"].pc = "ret"
  /\ ex["cb"].err = "nil"
  /\ file = OldFile
  /\ bak = NoFile

\* C22: a run that fails before the write leaves the files as they were:
\* when the detection or the reading of the output file fails,
\* executeStart returns the error from there, and no step of a run that is
\* at its detection or its read changes the output file or its backup
C22_FailureBeforeWriteLeavesFiles ==
  [][\A c \in {"main", "cb"} :
       /\ ex[c].pc \in {"detect", "read"} => (file' = file /\ bak' = bak)
       /\ (/\ ex[c].pc # "ret"
           /\ ex'[c].pc = "ret"
           /\ ex'[c].err \in {"ErrNoNetwork", "ErrFileNotFound"}) =>
             ex[c].pc = IF ex'[c].err = "ErrNoNetwork" THEN "detect"
                        ELSE "read"]_vars

\* the callback's run has failed to read, or to detect, with the file of
\* the first run in place and the first backup beside it
C22_Witness ==
  /\ ex["cb"].pc = "ret"
  /\ ex["cb"].err \in {"ErrNoNetwork", "ErrFileNotFound"}
  /\ file \notin InitialFiles
  /\ bak = OldFile

\* the provider is asked and fails
DockerFails(p) ==
  p.cfg.AutoDetect.Docker /\ (~p.dk.available \/ p.dk.err)

SupabaseFails(p) == p.cfg.AutoDetect.Supabase /\ p.sb.err

\* C23: a failing provider does not abort the run: when Docker or Supabase
\* detection is enabled and the provider is unavailable or returns an
\* error, it adds no variable, and the run completes without error and
\* writes the configured variable, resolved, and the variables of the
\* other provider when that one is enabled and answers
C23_ProviderFailureTolerated ==
  (probe.kind = "ran" /\ (DockerFails(probe) \/ SupabaseFails(probe))) =>
    /\ probe.err = "nil"
    /\ \E i \in 2..Len(probe.content) :
         /\ probe.content[i - 1] = MarkerLine
         /\ probe.content[i] =
              [kind |-> "kv", key |-> <<"A", "P", "I">>,
               raw |-> <<"h", "t", "t", "p", ":", "/", "/", "1", "0", ".", "0",
                         ".", "0", ".", "5", ":", "8", "0">>]
    /\ FileKeys(probe.content) =
         {<<"A", "P", "I">>}
           \cup (IF probe.cfg.AutoDetect.Docker /\ ~DockerFails(probe)
                 THEN {<<"D", "O", "C", "K", "E", "R", "_", "M", "Y", "_", "W",
                         "E", "B", "_", "P", "O", "R", "T">>}
                 ELSE {})
           \cup (IF probe.cfg.AutoDetect.Supabase /\ ~SupabaseFails(probe)
                 THEN {<<"S", "U", "P", "A", "B", "A", "S", "E", "_", "A", "P",
                         "I", "_", "U", "R", "L", "_", "P", "O", "R", "T">>}
                 ELSE {})

\* docker ps fails while Supabase answers: the file holds the configured
\* variable and the Supabase one
C23_Witness ==
  /\ probe.kind = "ran"
  /\ probe.cfg.AutoDetect.Docker
  /\ probe.dk.available
  /\ probe.dk.err
  /\ probe.cfg.AutoDetect.Supabase
  /\ ~probe.sb.err
  /\ probe.err = "nil"
  /\ Cardinality(FileKeys(probe.content)) = 2

\* C24: the process ends with one of the documented statuses: 0 when the
\* command succeeded and 1, 2, 3 or 4 when it failed, with ErrInvalidConfig
\* giving 2, ErrNoNetwork 3 and ErrPermissionDenied 4
C24_ExitCodeDocumented ==
  probe.kind = "exited" =>
    /\ probe.status \in {0, 1, 2, 3, 4}
    /\ probe.status = 0 <=> probe.err = "nil"
    /\ probe.err = "ErrInvalidConfig" => probe.status = 2
    /\ probe.err = "ErrNoNetwork" => probe.status = 3
    /\ probe.err = "ErrPermissionDenied" => probe.status = 4

\* what config.LoadProjectConfig reads from the lines of a file: the value
\* of a top-level key, or of a key below one
YamlValue(text, key) ==
  IF \E i \in 1..Len(text) : text[i].key = key
  THEN text[CHOOSE i \in 1..Len(text) : text[i].key = key].value
  ELSE ""

CallbackRunning == ex["cb"].pc # "idle"

\* C26: callbacks run on the watcher's own task, one at a time: while a
\* callback is executing the watcher is inside it, the tick in progress is
\* still the one that invoked it, it is the only invocation of that tick,
\* and so no scan of a later tick has begun
C26_CallbacksSerialized ==
  CallbackRunning =>
    /\ wpc = "cb"
    /\ tk.phase = "run"
    /\ Len(calls) = tk.ncalls0 + 1
    /\ calls[Len(calls)].new = tk.res

\* a callback is still writing the file while the next tick already waits
C26_Witness ==
  /\ CallbackRunning
  /\ ex["cb"].pc = "write"
  /\ tickC
  /\ Len(calls) = 2

\* C27: the invocations of OnChange form a chain: each has old # new, the
\* first starts from the address Start stored, and each later one starts
\* from the address the one before it reported
C27_CallbackChain ==
  \A i \in 1..Len(calls) :
    /\ calls[i].old # calls[i].new
    /\ i = 1 => Len(ipHist) >= 2 /\ calls[i].old = ipHist[2]
    /\ i > 1 => calls[i].old = calls[i - 1].new

\* two changes have been reported, the second to a third address
C27_Witness ==
  /\ Len(calls) = 2
  /\ calls[2].new # calls[1].old
  /\ wpc = "loop"

\* C28: while OnChange(old, new) is executing, CurrentIP is new and the
\* watcher goroutine holds no lock of mu, so that RLock (GetCurrentIP) and,
\* once the readers have left, Lock (Stop) can be taken from inside the
\* callback; a GetCurrentIP that returns during the callback returns new
C28_StoredBeforeCallbackUnlocked ==
  /\ [](wpc = "cb" =>
          /\ Watcher \notin mu
          /\ CanRLock
          /\ CurrentIP = calls[Len(calls)].new)
  /\ [][rpc = "rd" /\ rpc' = "idle" /\ wpc = "cb" =>
          rres' = calls[Len(calls)].new]_vars

\* a reader is inside GetCurrentIP while the callback is executing
C28_Witness ==
  /\ wpc = "cb"
  /\ CallbackRunning
  /\ rpc = "rd"
  /\ Reader \in mu
  /\ Len(calls) >= 1

\* C29: however the calls of Stop interleave with one another and with
\* Start, the stop channel is closed at most once, exactly once as soon as
\* a Stop has returned, and no close panics; a Start called after a Stop
\* has returned returns nil from its first test, with no detection, no
\* stored address and no callback
C29_StopIdempotentAndTerminal ==
  probe.kind = "stop" =>
    /\ probe.panics = 0
    /\ probe.closes <= 1
    /\ probe.returned > 0 => probe.closes = 1 /\ stopped /\ stopCh = "closed"
    /\ probe.startAfterStop =>
          /\ wpc \in {"st_check", "done"}
          /\ wpc = "done" => wret = "nil"
          /\ wNew = NoAddr
          /\ ~initFailed
          /\ CurrentIP = NoAddr
          /\ ipHist = <<NoAddr>>
          /\ calls = <<>>

\* Stop has been called four times, by both callers, and a Start called
\* after the first of them had returned has itself returned
C29_Witness ==
  /\ probe.kind = "stop"
  /\ probe.returned = 4
  /\ \A c \in Stoppers : probe.left[c] = 0
  /\ probe.startAfterStop
  /\ wpc = "done"

\* C30: when OnChange(old, new) has regenerated the output file and
\* executeStart has returned nil, the managed values of the file are the
\* configured ones built with new
C30_RegenerationUsesReportedAddress ==
  (/\ flags.Watch /\ ~flags.NoEnv /\ ~flags.DryRun
   /\ wpc = "cb"
   /\ ex["cb"].pc = "ret"
   /\ ex["cb"].err = "nil") =>
     ManagedOf(file) =
       ResolveVars(CollectVars(ProjectConfig), calls[Len(calls)].new)

====
